---------------------------- MODULE Spec2Model ----------------------------
(***************************************************************************)
(* A model of svngrab (github.com/ardnew/svngrab): the command line's      *)
(* VAR=VAL arguments (main.userVariables), the process-wide Variable table *)
(* and its substitution loops, and the orchestration of run.Run: connect   *)
(* phase, export phase, shell environment commit, up-to-date short         *)
(* circuit, configuration write and package assembly.                      *)
(*                                                                         *)
(* Go strings are modelled as sequences of one-character strings, so that  *)
(* strings.ReplaceAll and strings.IndexRune are computed, not assumed.     *)
(***************************************************************************)
EXTENDS Integers, Sequences, FiniteSets, TLC

VARIABLES
    pc,         \* position of the process in main / run.Run
    argv,       \* flag.Args(): the trailing command-line arguments
    vars,       \* the map returned by userVariables, Run's parameter vars
    Variable,   \* run.Variable, the package-level substitution table
    todo,       \* keys not yet visited by the range loop being executed
    field,      \* a free-text configuration field before substitution
    subst,      \* the field after the substitution loop, with the order used
    run,        \* number of the process invocation (1 = first run)
    update,     \* Run's parameter update (flag -u)
    disk,       \* the configuration file at path, as config.Config
    remote,     \* revision at the head of each entry's remote repository
    wc,         \* revision of each entry's local working copy, NoWC if absent
    changed,    \* whether a remote changed since the previous run ended
    fs,         \* what os.Stat, ReadFile and Unmarshal answered to this run's Parse
    cfg,        \* Run's local cfg, NoConfig before config.Parse
    reps,       \* Run's local reps: name -> repository handle
    cur,        \* the handle of the loop iteration being executed
    didUpdate,  \* Run's local didUpdate
    pkg,        \* the package rule being assembled and the place in it
    result,     \* what Run returned, "running" until it returns
    prev,       \* whether the previous invocation's Run returned nil
    exitCode,   \* the exit status of the process, NoExit while it runs
    log,        \* the operations of this run, in the order the log narrates them
    section,    \* sh.section: the sections of the shell environment record
    calls       \* the calls of ShellEnv.Append made so far, in order

argVars == <<argv, vars, field, subst>>
shVars == <<section, calls>>
envVars == <<run, update, remote, changed, fs, prev, exitCode>>
runVars == <<disk, wc, cfg, reps, cur, didUpdate, pkg, result, log>>
allVars == <<pc, Variable, todo, argVars, shVars, envVars, runVars>>

(***************************************************************************)
(* Strings                                                                 *)
(***************************************************************************)
Range(s) == {s[i] : i \in 1..Len(s)}

\* The index of the last c in s: strings.LastIndex in place of IndexRune.
IndexRuneLast(s, c) ==
    IF c \in {s[i] : i \in 1..Len(s)}
    THEN CHOOSE i \in 1..Len(s) : s[i] = c /\ \A j \in (i+1)..Len(s) : s[j] # c
    ELSE 0

\* strings.IndexRune(s, c): index of the first c in s (1-based), 0 for -1.
IndexRune(s, c) ==
    IF c \in Range(s)
    THEN CHOOSE i \in 1..Len(s) : s[i] = c /\ \A j \in 1..(i-1) : s[j] # c
    ELSE 0

HasPrefix(s, p) == Len(p) <= Len(s) /\ SubSeq(s, 1, Len(p)) = p

\* strings.ReplaceAll(s, old, new) for a non-empty old: the non-overlapping
\* instances of old, found from the left, are replaced by new; the text
\* inserted is not scanned again.
RECURSIVE ReplaceAll(_, _, _)
ReplaceAll(s, old, new) ==
    IF Len(s) < Len(old) \/ old = <<>> THEN s
    ELSE IF HasPrefix(s, old)
         THEN new \o ReplaceAll(SubSeq(s, Len(old) + 1, Len(s)), old, new)
         ELSE <<Head(s)>> \o ReplaceAll(Tail(s), old, new)

\* Whether sub occurs in s.
Contains(s, sub) ==
    \E i \in 1..(Len(s) - Len(sub) + 1) : SubSeq(s, i, i + Len(sub) - 1) = sub

UpperCase == <<"A", "B", "C", "D", "E", "F", "G", "H", "I", "J", "K", "L", "M",
               "N", "O", "P", "Q", "R", "S", "T", "U", "V", "W", "X", "Y", "Z">>
LowerCase == <<"a", "b", "c", "d", "e", "f", "g", "h", "i", "j", "k", "l", "m",
               "n", "o", "p", "q", "r", "s", "t", "u", "v", "w", "x", "y", "z">>

(***************************************************************************)
(* Finite maps (Go map[string]string) as functions                         *)
(***************************************************************************)
EmptyMap == [k \in {} |-> <<>>]

\* m[k] = v
MapPut(m, k, v) == [x \in DOMAIN m \cup {k} |-> IF x = k THEN v ELSE m[x]]

\* The orders in which a range statement can visit the keys of a map.
Orders(S) ==
    {o \in [1..Cardinality(S) -> S] : \A i, j \in 1..Cardinality(S) : i # j => o[i] # o[j]}

(***************************************************************************)
(* Command line: main.userVariables                                        *)
(***************************************************************************)
\* Upper bound on the number of trailing command-line arguments.
MaxArgs == 2

\* The trailing arguments tried: A=x, A=$B, B=x, AB=y, A=x=y, DATETIME=u,
\* A (no '='), =x (empty name), A= (empty value).
ArgSet ==
    { <<"A", "=", "x">>,
      <<"A", "=", "$", "B">>,
      <<"B", "=", "x">>,
      <<"A", "B", "=", "y">>,
      <<"A", "=", "x", "=", "y">>,
      <<"D", "A", "T", "E", "T", "I", "M", "E", "=", "u">>,
      <<"A">>,
      <<"=", "x">>,
      <<"A", "=">> }

ArgvSet == UNION {[1..n -> ArgSet] : n \in 0..MaxArgs}

\* userVariables(argv...): the first i arguments processed in order; an
\* argument with a '=' at index k binds "$"+a[:k] to a[k+1:], any other is
\* appended to args.
RECURSIVE userVariablesUpTo(_, _)
userVariablesUpTo(av, i) ==
    IF i = 0 THEN [vars |-> EmptyMap, args |-> <<>>]
    ELSE LET r == userVariablesUpTo(av, i - 1)
             a == av[i]
             k == IndexRune(a, "=")
         IN  IF k > 0
             THEN [r EXCEPT !.vars =
                      MapPut(@, <<"$">> \o SubSeq(a, 1, k - 1), SubSeq(a, k + 1, Len(a)))]
             ELSE [r EXCEPT !.args = Append(@, a)]

userVariables(av) == userVariablesUpTo(av, Len(av))

(***************************************************************************)
(* The Variable table and the substitution loops of run.Run                *)
(***************************************************************************)
tDATETIME == <<"$", "D", "A", "T", "E", "T", "I", "M", "E">>

\* The tokens of the user variables A and B.
tA == <<"$", "A">>
tB == <<"$", "B">>

\* time.Now().Local().Format("20060102-150405") at process start.
Now == <<"2", "0", "2", "6", "1", "1", "0", "6", "-", "1", "0", "5", "8", "0", "0">>

\* var Variable = map[string]string{"$DATETIME": ...}
VariableInit == [t \in {tDATETIME} |-> Now]

\* for ident, value := range Variable { s = strings.ReplaceAll(s, ident, value) }
\* with the keys visited in the order o, from its i-th key on.
RECURSIVE SubstituteFrom(_, _, _, _)
SubstituteFrom(s, table, o, i) ==
    IF i > Len(o) THEN s
    ELSE SubstituteFrom(ReplaceAll(s, o[i], table[o[i]]), table, o, i + 1)

Substitute(s, table, o) == SubstituteFrom(s, table, o, 1)

\* Free-text fields tried: $A, $AB, $A/$B, p$DATETIME, $$A, x.
FieldSet ==
    { <<"$", "A">>,
      <<"$", "A", "B">>,
      <<"$", "A", "/", "$", "B">>,
      <<"p">> \o tDATETIME,
      <<"$", "$", "A">>,
      <<"x">> }

NoSubst == [out |-> <<>>, order |-> <<>>]

NoConfig == [Export |-> EmptyMap, Package |-> EmptyMap]

\* The process has not exited.
NoExit == -1

\* Parse has not been called in this run.
NoFs == [dir |-> "", file |-> "", readable |-> FALSE, yaml |-> FALSE]
NoHandle == [name |-> <<>>, entry |-> <<>>, cfg |-> <<>>]
\* config.IncludeCopyConfig, the copy operation of an include entry.
CopyConfig(repo, package, ignore) ==
    [Repo |-> repo, Package |-> package, Conflict |-> <<>>, Symlinks |-> <<>>,
     Ignore |-> ignore]

\* copy.Options before copyOptions has made them.
NoOptions == [OnSymlink |-> "", OnDirExists |-> "", Sync |-> FALSE, PreserveTimes |-> FALSE]

NoPackage ==
    [key |-> <<>>, path |-> <<>>, inc |-> 0, srcPath |-> <<>>, opi |-> 0,
     cp |-> CopyConfig(<<>>, <<>>, <<>>), src |-> <<>>, dst |-> <<>>,
     opt |-> NoOptions, arcPath |-> <<>>]

(***************************************************************************)
(* The shell environment record: run.ShellEnv                              *)
(***************************************************************************)
\* strings.ToUpper
ToUpper(s) ==
    [i \in 1..Len(s) |->
        IF \E j \in 1..26 : LowerCase[j] = s[i]
        THEN UpperCase[CHOOSE j \in 1..26 : LowerCase[j] = s[i]]
        ELSE s[i]]

\* The white space strings.TrimSpace removes (of the characters tried).
Space == {" ", "\t"}

\* strings.TrimLeft(s, cutset) and strings.TrimRight(s, cutset), the cutset
\* given as a set of characters.
RECURSIVE TrimLeft(_, _)
TrimLeft(s, cut) ==
    IF s # <<>> /\ Head(s) \in cut THEN TrimLeft(Tail(s), cut) ELSE s

RECURSIVE TrimRight(_, _)
TrimRight(s, cut) ==
    IF s # <<>> /\ s[Len(s)] \in cut THEN TrimRight(SubSeq(s, 1, Len(s) - 1), cut) ELSE s

\* strings.Trim(s, cutset) and strings.TrimSpace(s)
Trim(s, cut) == TrimLeft(TrimRight(s, cut), cut)
TrimSpace(s) == Trim(s, Space)

DigitChars == {"0", "1", "2", "3", "4", "5", "6", "7", "8", "9"}

\* The character classes [A-Z_] and [A-Z0-9_] of reNonidents.
IdentStart == Range(UpperCase) \cup {"_"}
IdentChar == IdentStart \cup DigitChars

\* The text s with every maximal run of characters outside the class replaced
\* by one "_": ReplaceAllLiteralString of the pattern [^class]+.
RECURSIVE ReplaceRuns(_, _)
ReplaceRuns(s, class) ==
    IF s = <<>> THEN <<>>
    ELSE IF Head(s) \in class THEN <<Head(s)>> \o ReplaceRuns(Tail(s), class)
    ELSE <<"_">> \o ReplaceRuns(TrimLeft(s, {c \in Range(s) : c \notin class}), class)

\* The characters outside [A-Z0-9_] are removed instead of replaced by "_".
reNonidentsRemoved(s) == SelectSeq(s, LAMBDA c : c \in IdentChar)

\* reNonidents.ReplaceAllLiteralString(s, "_") for "(^[^A-Z_]|[^A-Z0-9_]+)": at
\* the start of the text the first alternative wins and takes one character
\* outside [A-Z_]; the second takes the runs outside [A-Z0-9_] after it.
reNonidents(s) ==
    IF s = <<>> THEN <<>>
    ELSE IF Head(s) \notin IdentStart
         THEN <<"_">> \o ReplaceRuns(Tail(s), IdentChar)
         ELSE ReplaceRuns(s, IdentChar)

\* reUnderscores.ReplaceAllLiteralString(s, "_") for "_+".
RECURSIVE reUnderscores(_)
reUnderscores(s) ==
    IF s = <<>> THEN <<>>
    ELSE IF Head(s) = "_" THEN <<"_">> \o reUnderscores(TrimLeft(s, {"_"}))
    ELSE <<Head(s)>> \o reUnderscores(Tail(s))

\* The key sanitization of ShellEnv.Append.
SanitizeKey(key) ==
    Trim(reUnderscores(reNonidents(ToUpper(TrimSpace(key)))), {"_"})

\* shellEnvSection
NoSection == [count |-> 0, key |-> <<>>, val |-> <<>>]

Min(a, b) == IF a < b THEN a ELSE b

\* shellEnvSection.Len
SectionLen(env) == Min(env.count, Min(Len(env.key), Len(env.val)))

\* The index in sh of the first section named sect, 0 if there is none.
SectionIndex(sh, sect) ==
    IF \E i \in 1..Len(sh) : sh[i].name = sect
    THEN CHOOSE i \in 1..Len(sh) : sh[i].name = sect /\ \A j \in 1..(i - 1) : sh[j].name # sect
    ELSE 0

\* The index in env of the first pair whose key is key, 0 if there is none.
KeyIndex(env, key) ==
    IF \E i \in 1..SectionLen(env) : env.key[i] = key
    THEN CHOOSE i \in 1..SectionLen(env) :
            env.key[i] = key /\ \A j \in 1..(i - 1) : env.key[j] # key
    ELSE 0

\* The pair is added at the end of the section whether or not the key exists.
SectionPutAlways(env, key, val) ==
    [env EXCEPT !.key = Append(@, key), !.val = Append(@, val), !.count = @ + 1]

\* A new pair goes to the end of the section and is not counted.
SectionPutUncounted(env, key, val) ==
    IF KeyIndex(env, key) > 0
    THEN [env EXCEPT !.val[KeyIndex(env, key)] = val]
    ELSE [env EXCEPT !.key = Append(@, key), !.val = Append(@, val)]

\* The pair (key, val) put into the section env: an existing key has its value
\* replaced, a new key goes to the end of the section.
SectionPut(env, key, val) ==
    IF KeyIndex(env, key) > 0
    THEN [env EXCEPT !.val[KeyIndex(env, key)] = val]
    ELSE [env EXCEPT !.key = Append(@, key), !.val = Append(@, val), !.count = @ + 1]

\* ShellEnv.Append(section, key, val) on the sections sh: the section is made
\* if no section has that name, then the sanitized key is put into it.
ShellEnvAppend(sh, sect, key, val) ==
    LET i == SectionIndex(sh, sect)
        K == SanitizeKey(key)
    IN  IF i > 0
        THEN [sh EXCEPT ![i].env = SectionPut(@, K, val)]
        ELSE Append(sh, [name |-> sect, env |-> SectionPut(NoSection, K, val)])

\* log.Eol on every target but Windows.
Eol == <<"\n">>

\* shellEnvSection.String: the lines key="val" of the first n pairs of env.
RECURSIVE SectionStringUpTo(_, _)
SectionStringUpTo(env, n) ==
    IF n = 0 THEN <<>>
    ELSE SectionStringUpTo(env, n - 1)
            \o env.key[n] \o <<"=", "\"">> \o env.val[n] \o <<"\"">> \o Eol

SectionString(env) == SectionStringUpTo(env, SectionLen(env))

\* The header and the pairs of the n-th section.
SectionText(sh, n) ==
    <<"#", " ">> \o Eol \o <<"#", " ">> \o sh[n].name \o Eol \o <<"#", " ">> \o Eol
       \o SectionString(sh[n].env)

\* Every section is preceded by an empty line, the first one too.
RECURSIVE ShellEnvStringLeadingEol(_)
ShellEnvStringLeadingEol(sh) ==
    IF sh = <<>> THEN <<>>
    ELSE ShellEnvStringLeadingEol(SubSeq(sh, 1, Len(sh) - 1))
            \o Eol \o SectionText(sh, Len(sh))

\* ShellEnv.String: the sections in order, an Eol before each but the first.
RECURSIVE ShellEnvString(_)
ShellEnvString(sh) ==
    IF sh = <<>> THEN <<>>
    ELSE ShellEnvString(SubSeq(sh, 1, Len(sh) - 1))
            \o (IF Len(sh) > 1 THEN Eol ELSE <<>>) \o SectionText(sh, Len(sh))

\* One call of Append, and the sections sh after the calls cs made in order.
Call(sect, key, val) == [section |-> sect, key |-> key, val |-> val]

RECURSIVE AppendAll(_, _)
AppendAll(sh, cs) ==
    IF cs = <<>> THEN sh
    ELSE AppendAll(ShellEnvAppend(sh, Head(cs).section, Head(cs).key, Head(cs).val), Tail(cs))

\* The section and key texts of Run's calls of Append.
sInputVariables ==
    <<"i", "n", "p", "u", "t", " ", "v", "a", "r", "i", "a", "b", "l", "e", "s">>
sVAR == <<"V", "A", "R", "_">>
sREPO == <<"R", "E", "P", "O", "_">>
sURL == <<"_", "U", "R", "L">>
sLOCAL == <<"_", "L", "O", "C", "A", "L">>
sPREVREV == <<"_", "P", "R", "E", "V", "R", "E", "V">>
sCURRREV == <<"_", "C", "U", "R", "R", "R", "E", "V">>

(***************************************************************************)
(* SpecVar: from the command line to one substituted field                 *)
(***************************************************************************)
InitVar ==
    /\ pc = "main"
    /\ argv \in ArgvSet
    /\ vars = EmptyMap
    /\ Variable = VariableInit
    /\ todo = {}
    /\ field \in FieldSet
    /\ subst = NoSubst
    /\ run = 1
    /\ update = FALSE
    /\ disk = NoConfig
    /\ remote = EmptyMap
    /\ wc = EmptyMap
    /\ changed = FALSE
    /\ fs = NoFs
    /\ prev = FALSE
    /\ exitCode = NoExit
    /\ cfg = NoConfig
    /\ reps = EmptyMap
    /\ cur = NoHandle
    /\ didUpdate = FALSE
    /\ pkg = NoPackage
    /\ result = "running"
    /\ log = <<>>
    /\ section = <<>>
    /\ calls = <<>>

\* main: vars, _ := userVariables(flag.Args()...), then the call of run.Run.
MainUserVariables ==
    /\ pc = "main"
    /\ vars' = userVariables(argv).vars
    /\ todo' = DOMAIN vars'
    /\ pc' = "run"
    /\ UNCHANGED <<argv, Variable, field, subst, shVars, envVars, runVars>>

\* One iteration of: for ident, value := range vars { Variable[ident] = value;
\* sh.Append("input variables", "VAR_"+ident, value) }
RunCopyVariable ==
    /\ pc = "run"
    /\ \E ident \in todo :
          LET cs == << Call(sInputVariables, sVAR \o ident, vars[ident]) >>
          IN  /\ Variable' = MapPut(Variable, ident, vars[ident])
              /\ section' = AppendAll(section, cs)
              /\ calls' = calls \o cs
              /\ todo' = todo \ {ident}
    /\ UNCHANGED <<pc, argVars, envVars, runVars>>

\* One substitution loop over Variable applied to one field, the keys of the
\* map visited in any order.
RunSubstituteField ==
    /\ pc = "run"
    /\ todo = {}
    /\ \E o \in Orders(DOMAIN Variable) :
          subst' = [out |-> Substitute(field, Variable, o), order |-> o]
    /\ pc' = "substituted"
    /\ UNCHANGED <<argv, vars, Variable, todo, field, shVars, envVars, runVars>>

NextVar == MainUserVariables \/ RunCopyVariable \/ RunSubstituteField

SpecVar == InitVar /\ [][NextVar]_allVars

(***************************************************************************)
(* Inputs of run.Run: configurations, remotes, user variables              *)
(***************************************************************************)
\* Upper bound on process invocations and on remote revision numbers.
MaxRuns == 2
MaxRev == 2

Digits == <<"1", "2", "3", "4", "5", "6", "7", "8", "9">>

\* The revision identifier svn reports for revision number n.
RevStr(n) == <<Digits[n]>>

NoWC == <<>>

nL == <<"L">>
nX == <<"x">>

\* config.ExportConfig
ExportConfig(repo, path, local, last) ==
    [Repo |-> repo, Path |-> path, Local |-> local, Last |-> last]

\* Export maps tried, by the stored last revision: no entry; one entry L; an
\* entry named $A (path $A) beside L; an entry named $A beside an entry x.
ExportMaps(last) ==
    { EmptyMap,
      [n \in {nL} |-> ExportConfig(<<"h", "/", "l">>, <<"t">>, <<"w", "l">>, last)],
      [n \in {tA, nL} |->
          IF n = tA THEN ExportConfig(<<"h", "/", "a">>, tA, <<"w", "a">>, last)
                    ELSE ExportConfig(<<"h", "/", "l">>, <<"t">>, <<"w", "l">>, last)],
      [n \in {tA, nX} |->
          IF n = tA THEN ExportConfig(<<"h", "/", "a">>, <<"t">>, <<"w", "a">>, last)
                    ELSE ExportConfig(<<"h", "/", "x">>, <<"t">>, <<"w", "x">>, last)] }

\* config.CompressConfig
CompressConfig(output, method) == [Output |-> output, Method |-> method]

\* config.PackageConfig; an IncludeMap has one key and its list of operations.
PackageConfig(include, compress) == [Include |-> include, Compress |-> compress]

sSvn == <<".", "s", "v", "n">>
sZip == <<"z", "i", "p">>
sRar == <<"r", "a", "r">>

\* A package map with one rule p: from the handle L a copy, an operation
\* without destination and a copy from an absolute path, then a zip (method
\* written Zip) named by $DATETIME; from a literal path one copy.
ZipMap ==
    [k \in {<<"p">>} |->
        PackageConfig(
          << [key |-> nL,
              list |-> << CopyConfig(<<"s">>, <<"d">>, <<sSvn>>),
                          CopyConfig(<<"s">>, <<>>, <<>>),
                          CopyConfig(<<"/", "s">>, <<"/", "d">>, <<>>) >>],
             [key |-> <<"l", "i", "t">>,
              list |-> << CopyConfig(<<"s">>, <<"d">>, <<>>) >>] >>,
          CompressConfig(<<"o">> \o tDATETIME, <<"Z", "i", "p">>))]

\* A package map with a rule p whose second operation has an ignore pattern
\* with an unclosed group, and a rule q without copy whose compress method is
\* unknown.
BadIgnoreMap ==
    [k \in {<<"p">>, <<"q">>} |->
        IF k = <<"p">>
        THEN PackageConfig(
               << [key |-> nL,
                   list |-> << CopyConfig(<<"s">>, <<"d">>, <<sSvn>>),
                               CopyConfig(<<"s">>, <<"e">>, <<sSvn, <<"(">> >>) >>] >>,
               CompressConfig(<<"o", ".", "z", "i", "p">>, <<"Z", "i", "p">>))
        ELSE PackageConfig(<<>>, CompressConfig(<<"o">>, sRar))]

\* A package map with two rules that both succeed, p with the ignore pattern
\* $A, q without archive.
TwoRulesMap ==
    [k \in {<<"p">>, <<"q">>} |->
        IF k = <<"p">>
        THEN PackageConfig(
               << [key |-> nL, list |-> << CopyConfig(<<"s">>, <<"d">>, <<tA>>) >>] >>,
               CompressConfig(<<"o">>, <<"t", "g", "z">>))
        ELSE PackageConfig(
               << [key |-> nL, list |-> << CopyConfig(<<"s">>, <<"d">>, <<>>) >>] >>,
               CompressConfig(<<>>, <<>>))]

\* Package maps tried.
PackageMaps == {ZipMap, BadIgnoreMap, TwoRulesMap}

\* A package map with one rule p that copies from a literal path: an
\* operation without source, whose ignore pattern has an unclosed group, then
\* a copy; no archive.
LitMap ==
    [k \in {<<"p">>} |->
        PackageConfig(
          << [key |-> <<"l", "i", "t">>,
              list |-> << CopyConfig(<<>>, <<"d">>, << <<"(">> >>),
                          CopyConfig(<<"s">>, <<"d">>, <<>>) >>] >>,
          CompressConfig(<<>>, <<>>))]

\* The configuration files tried: the entries never fetched (last empty) or
\* all stored at revision 1; package rules with the single entry L; the
\* entries $A and x with the rule whose ignore pattern does not compile; no
\* entry with a rule that copies from a literal path.
ConfigSet ==
    LET lasts == {<<>>, RevStr(1)}
    IN  { [Export |-> e, Package |-> EmptyMap] : e \in UNION {ExportMaps(l) : l \in lasts} }
        \cup
        { [Export |-> [n \in {nL} |->
                         ExportConfig(<<"h", "/", "l">>, <<"t">>, <<"w", "l">>, RevStr(1))],
           Package |-> k] : k \in PackageMaps }
        \cup
        { [Export |-> e, Package |-> BadIgnoreMap] :
             e \in {x \in ExportMaps(RevStr(1)) : DOMAIN x = {tA, nX}} }
        \cup
        { [Export |-> EmptyMap, Package |-> LitMap] }

\* Run's parameter vars as tried: no user variable, or A=x.
VarsSet == { EmptyMap, [t \in {tA} |-> nX] }

\* What Parse can find at filePath. The directory of the path is missing, is
\* there, is something else than a directory, or os.Stat fails on it for
\* another reason than absence ("unknown": no search permission on the path,
\* a component that is a file); the same for the file, whose content can be
\* unreadable or no valid YAML. What is found of the file agrees with what is
\* found of the directory.
FsSet ==
    { [dir |-> "missing", file |-> "missing", readable |-> FALSE, yaml |-> FALSE],
      [dir |-> "unknown", file |-> "unknown", readable |-> FALSE, yaml |-> FALSE],
      [dir |-> "file", file |-> "unknown", readable |-> FALSE, yaml |-> FALSE],
      [dir |-> "dir", file |-> "missing", readable |-> FALSE, yaml |-> FALSE],
      [dir |-> "dir", file |-> "unknown", readable |-> FALSE, yaml |-> FALSE],
      [dir |-> "dir", file |-> "dir", readable |-> FALSE, yaml |-> FALSE],
      [dir |-> "dir", file |-> "regular", readable |-> FALSE, yaml |-> FALSE],
      [dir |-> "dir", file |-> "regular", readable |-> TRUE, yaml |-> FALSE],
      [dir |-> "dir", file |-> "regular", readable |-> TRUE, yaml |-> TRUE] }

\* config.Parse(filePath) on the file content: the configuration and the
\* error, "nil" for none. os.Stat returns a nil FileInfo with an error other
\* than absence, and the method call on it panics; the errors of ReadFile and
\* yaml.Unmarshal are returned as they are.
Parse(f, content) ==
    LET err == IF f.dir = "missing" THEN "DirectoryNotFoundError"
               ELSE IF f.dir = "unknown" THEN "panic"
               ELSE IF f.dir # "dir" THEN "InvalidPathError"
               ELSE IF f.file = "missing" THEN "ConfigFileNotFoundError"
               ELSE IF f.file = "unknown" THEN "panic"
               ELSE IF f.file # "regular" THEN "NotRegularFileError"
               ELSE IF ~f.readable THEN "ReadError"
               ELSE IF ~f.yaml THEN "YamlError"
               ELSE "nil"
    IN  [cfg |-> IF err = "nil" THEN content ELSE NoConfig, err |-> err]

\* The ways Parse can fail: the four error kinds of package config, the error
\* of ReadFile or Unmarshal, and the panic.
ParseErrors == {Parse(f, NoConfig).err : f \in FsSet} \ {"nil"}

\* One narrated operation: l.Infof names it, l.Eolf tells whether it failed.
Op(name, on, ok) == [op |-> name, on |-> on, ok |-> ok]

(***************************************************************************)
(* SpecEnv: a record made by NewShellEnv and a sequence of Append calls    *)
(***************************************************************************)
\* Upper bound on the number of Append calls.
MaxAppends == 3

\* Section names tried.
SectionSet == { <<"s">>, <<"t">> }

\* Keys tried: k, " k", j, a-b, ab, 12, 1 and the empty key.
KeySet ==
    { <<"k">>, <<" ", "k">>, <<"j">>, <<"a", "-", "b">>, <<"a", "b">>,
      <<"1", "2">>, <<"1">>, <<>> }

InitEnv ==
    /\ pc = "env"
    /\ argv = <<>>
    /\ vars = EmptyMap
    /\ Variable = VariableInit
    /\ todo = {}
    /\ field = <<>>
    /\ subst = NoSubst
    /\ run = 1
    /\ update = FALSE
    /\ disk = NoConfig
    /\ remote = EmptyMap
    /\ wc = EmptyMap
    /\ changed = FALSE
    /\ fs = NoFs
    /\ prev = FALSE
    /\ exitCode = NoExit
    /\ cfg = NoConfig
    /\ reps = EmptyMap
    /\ cur = NoHandle
    /\ didUpdate = FALSE
    /\ pkg = NoPackage
    /\ result = "running"
    /\ log = <<>>
    /\ section = <<>>
    /\ calls = <<>>

\* One call sh.Append(sect, key, val); the value is the number of the call.
EnvAppend ==
    /\ pc = "env"
    /\ Len(calls) < MaxAppends
    /\ \E sect \in SectionSet, key \in KeySet :
          LET val == RevStr(Len(calls) + 1)
          IN  /\ section' = ShellEnvAppend(section, sect, key, val)
              /\ calls' = Append(calls, Call(sect, key, val))
    /\ UNCHANGED <<pc, Variable, todo, argVars, envVars, runVars>>

\* sh.Commit(): io.WriteString(s.Writer, s.String()); the text written is
\* narrated with the operation.
EnvCommit ==
    /\ pc = "env"
    /\ log' = Append(log, Op("commit", ShellEnvString(section), TRUE))
    /\ pc' = "committed"
    /\ UNCHANGED <<Variable, todo, argVars, shVars, envVars, disk, wc, cfg, reps, cur,
                   didUpdate, pkg, result>>

NextEnv == EnvAppend \/ EnvCommit

SpecEnv == InitEnv /\ [][NextEnv]_allVars

(***************************************************************************)
(* Spec: run.Run, invoked MaxRuns times on the same configuration file     *)
(***************************************************************************)
\* Each remote starts at its first or at its highest revision; the revisions
\* between are reached by RemoteCommit.
Init ==
    /\ pc = "run"
    /\ argv = <<>>
    /\ vars \in VarsSet
    /\ Variable = VariableInit
    /\ todo = DOMAIN vars
    /\ field = <<>>
    /\ subst = NoSubst
    /\ run = 1
    /\ update \in BOOLEAN
    /\ disk \in ConfigSet
    /\ remote \in [DOMAIN disk.Export -> {RevStr(1), RevStr(MaxRev)}]
    /\ wc = [e \in DOMAIN disk.Export |-> NoWC]
    /\ changed = FALSE
    /\ fs = NoFs
    /\ prev = FALSE
    /\ exitCode = NoExit
    /\ cfg = NoConfig
    /\ reps = EmptyMap
    /\ cur = NoHandle
    /\ didUpdate = FALSE
    /\ pkg = NoPackage
    /\ result = "running"
    /\ log = <<>>
    /\ section = <<>>
    /\ calls = <<>>

\* return err, or a panic that unwinds Run: the deferred sh.Close() is what
\* remains to run.
Return(err) ==
    /\ result' = err
    /\ pc' = "return"

\* cfg, err := config.Parse(path); if nil != err { return err }
\* What is found at the path is the same in every invocation.
RunParse ==
    /\ pc = "run"
    /\ todo = {}
    /\ \E f \in (IF fs = NoFs THEN FsSet ELSE {fs}) :
          LET r == Parse(f, disk)
          IN  /\ fs' = f
              /\ log' = Append(log, Op("parse", <<>>, r.err = "nil"))
              /\ IF r.err = "nil"
                 THEN /\ cfg' = r.cfg
                      /\ todo' = DOMAIN r.cfg.Export
                      /\ pc' = IF DOMAIN r.cfg.Export = {} THEN "commit" ELSE "connect"
                      /\ UNCHANGED result
                 ELSE /\ Return(r.err)
                      /\ UNCHANGED <<cfg, todo>>
    /\ UNCHANGED <<Variable, argVars, shVars, run, update, remote, changed, prev,
                   exitCode, disk, wc, reps, cur, didUpdate, pkg>>

\* The substitution is applied to the entry of the configuration itself,
\* not to a copy of it.
RunNewRepoInPlace ==
    /\ pc = "connect"
    /\ \E name \in todo, o \in Orders(DOMAIN Variable) :
          LET expo == cfg.Export[name]
              h == [name  |-> Substitute(name, Variable, o),
                    entry |-> name,
                    cfg   |-> [expo EXCEPT !.Repo = Substitute(@, Variable, o),
                                           !.Path = Substitute(@, Variable, o),
                                           !.Local = Substitute(@, Variable, o)]]
              key(x) == sREPO \o h.name \o x
              cs == << Call(h.name, key(sURL),
                            TrimRight(h.cfg.Repo, {"/"}) \o <<"/">> \o TrimLeft(h.cfg.Path, {"/"})),
                       Call(h.name, key(sLOCAL), h.cfg.Local),
                       Call(h.name, key(sPREVREV), <<>>),
                       Call(h.name, key(sCURRREV), <<>>) >>
          IN  /\ todo' = todo \ {name}
              /\ cfg' = [cfg EXCEPT !.Export[name] = h.cfg]
              /\ section' = AppendAll(section, cs)
              /\ calls' = calls \o cs
              /\ \/ /\ log' = Append(log, Op("new", name, TRUE))
                    /\ cur' = h
                    /\ pc' = "ping"
                    /\ UNCHANGED result
                 \/ /\ log' = Append(log, Op("new", name, FALSE))
                    /\ Return("InvalidRepositoryError")
                    /\ UNCHANGED cur
    /\ UNCHANGED <<Variable, argVars, envVars, disk, wc, reps, didUpdate, pkg>>

\* One iteration of the first loop, up to repo.New: the name and the fields
\* of the entry are substituted, the entry's four keys are appended to the
\* record, then the handle is constructed.
RunNewRepo ==
    /\ pc = "connect"
    /\ \E name \in todo, o \in Orders(DOMAIN Variable) :
          LET expo == cfg.Export[name]
              h == [name  |-> Substitute(name, Variable, o),
                    entry |-> name,
                    cfg   |-> [expo EXCEPT !.Repo = Substitute(@, Variable, o),
                                           !.Path = Substitute(@, Variable, o),
                                           !.Local = Substitute(@, Variable, o)]]
              key(x) == sREPO \o h.name \o x
              cs == << Call(h.name, key(sURL),
                            TrimRight(h.cfg.Repo, {"/"}) \o <<"/">> \o TrimLeft(h.cfg.Path, {"/"})),
                       Call(h.name, key(sLOCAL), h.cfg.Local),
                       Call(h.name, key(sPREVREV), <<>>),
                       Call(h.name, key(sCURRREV), <<>>) >>
          IN  /\ todo' = todo \ {name}
              /\ section' = AppendAll(section, cs)
              /\ calls' = calls \o cs
              /\ \/ /\ log' = Append(log, Op("new", name, TRUE))
                    /\ cur' = h
                    /\ pc' = "ping"
                    /\ UNCHANGED result
                 \/ /\ log' = Append(log, Op("new", name, FALSE))
                    /\ Return("InvalidRepositoryError")
                    /\ UNCHANGED cur
    /\ UNCHANGED <<Variable, argVars, envVars, disk, wc, cfg, reps, didUpdate, pkg>>

\* The error of rep.IsConnected() is dropped: the handle is installed and the
\* loop goes on whether or not the remote answered.
RunIsConnectedIgnored ==
    /\ pc = "ping"
    /\ \E ok \in BOOLEAN : log' = Append(log, Op("ping", cur.entry, ok))
    /\ reps' = MapPut(reps, cur.name, [entry |-> cur.entry, cfg |-> cur.cfg])
    /\ IF todo = {}
       THEN pc' = "export" /\ todo' = DOMAIN reps'
       ELSE pc' = "connect" /\ todo' = todo
    /\ cur' = NoHandle
    /\ UNCHANGED <<Variable, argVars, shVars, envVars, disk, wc, cfg, didUpdate, pkg, result>>

\* One loop over the entries: after the reachability check of an entry the
\* handles registered so far are fetched.
RunIsConnectedOneLoop ==
    /\ pc = "ping"
    /\ \/ /\ log' = Append(log, Op("ping", cur.entry, TRUE))
          /\ reps' = MapPut(reps, cur.name, [entry |-> cur.entry, cfg |-> cur.cfg])
          /\ pc' = "export"
          /\ todo' = DOMAIN reps'
          /\ UNCHANGED result
       \/ /\ log' = Append(log, Op("ping", cur.entry, FALSE))
          /\ Return("ConnectionFailedError")
          /\ UNCHANGED <<reps, todo>>
    /\ cur' = NoHandle
    /\ UNCHANGED <<Variable, argVars, shVars, envVars, disk, wc, cfg, didUpdate, pkg>>

\* The rest of the iteration: rep.IsConnected(), then reps[name] = rep. After
\* the last entry the second loop starts to range over reps.
RunIsConnected ==
    /\ pc = "ping"
    /\ \/ /\ log' = Append(log, Op("ping", cur.entry, TRUE))
          /\ reps' = MapPut(reps, cur.name, [entry |-> cur.entry, cfg |-> cur.cfg])
          /\ IF todo = {}
             THEN pc' = "export" /\ todo' = DOMAIN reps'
             ELSE pc' = "connect" /\ todo' = todo
          /\ UNCHANGED result
       \/ /\ log' = Append(log, Op("ping", cur.entry, FALSE))
          /\ Return("ConnectionFailedError")
          /\ UNCHANGED <<reps, todo>>
    /\ cur' = NoHandle
    /\ UNCHANGED <<Variable, argVars, shVars, envVars, disk, wc, cfg, didUpdate, pkg>>

\* The modes exchanged: checkout if the working copy exists, else update.
ExporterInverted(w) == IF w # NoWC THEN "checkout" ELSE "update"

\* repo.Exporter: update if the working copy exists, else checkout.
Exporter(w) == IF w # NoWC THEN "update" ELSE "checkout"

\* The fetch without the revision query: the loop goes to the next handle.
RunExportNoRevision ==
    /\ pc = "export"
    /\ \E name \in todo :
          LET rep == reps[name]
          IN  /\ todo' = todo \ {name}
              /\ log' = Append(log, Op(Exporter(wc[rep.entry]), rep.entry, TRUE))
              /\ wc' = [wc EXCEPT ![rep.entry] = remote[rep.entry]]
              /\ pc' = IF todo' = {} THEN "commit" ELSE "export"
    /\ UNCHANGED <<Variable, argVars, shVars, envVars, disk, cfg, reps, cur, didUpdate, pkg, result>>

\* One iteration of the second loop, up to rep.Export(): the fetch brings the
\* working copy to the remote's head revision.
RunExport ==
    /\ pc = "export"
    /\ \E name \in todo :
          LET rep == reps[name]
          IN  /\ todo' = todo \ {name}
              /\ \/ /\ log' = Append(log, Op(Exporter(wc[rep.entry]), rep.entry, TRUE))
                    /\ wc' = [wc EXCEPT ![rep.entry] = remote[rep.entry]]
                    /\ cur' = [name |-> name, entry |-> rep.entry, cfg |-> rep.cfg]
                    /\ pc' = "revision"
                    /\ UNCHANGED result
                 \/ /\ log' = Append(log, Op(Exporter(wc[rep.entry]), rep.entry, FALSE))
                    /\ Return("ExportFailedError")
                    /\ UNCHANGED <<wc, cur>>
    /\ UNCHANGED <<Variable, argVars, shVars, envVars, disk, cfg, reps, didUpdate, pkg>>

\* if expo, ok := cfg.Export[name]; ok { ... }: the bookkeeping of the second
\* loop for the handle registered as name, whose revision is vers.
Bookkeep(name, vers) ==
    IF name \in DOMAIN cfg.Export
    THEN LET cs == << Call(name, sREPO \o name \o sPREVREV, cfg.Export[name].Last),
                      Call(name, sREPO \o name \o sCURRREV, vers) >>
         IN  /\ didUpdate' = (didUpdate \/ cfg.Export[name].Last # vers)
             /\ section' = AppendAll(section, cs)
             /\ calls' = calls \o cs
             /\ cfg' = [cfg EXCEPT !.Export[name].Last = vers]
    ELSE UNCHANGED <<didUpdate, cfg, shVars>>

\* The rest of the iteration: rep.Revision(), then the bookkeeping.
RunRevision ==
    /\ pc = "revision"
    /\ \/ /\ log' = Append(log, Op("revision", cur.entry, TRUE))
          /\ Bookkeep(cur.name, wc[cur.entry])
          /\ pc' = IF todo = {} THEN "commit" ELSE "export"
          /\ UNCHANGED result
       \/ /\ log' = Append(log, Op("revision", cur.entry, FALSE))
          /\ Return("UnknownRevisionError")
          /\ UNCHANGED <<didUpdate, cfg, shVars>>
    /\ cur' = NoHandle
    /\ UNCHANGED <<Variable, todo, argVars, envVars, disk, wc, reps, pkg>>

\* The record is not committed: Run goes on to the up-to-date test.
RunCommitSkipped ==
    /\ pc = "commit"
    /\ pc' = "uptodate"
    /\ UNCHANGED <<Variable, todo, argVars, shVars, envVars, runVars>>

\* _, err = sh.Commit(); if err != nil { return err }
RunCommit ==
    /\ pc = "commit"
    /\ \/ /\ log' = Append(log, Op("commit", <<>>, TRUE))
          /\ pc' = "uptodate"
          /\ UNCHANGED result
       \/ /\ log' = Append(log, Op("commit", <<>>, FALSE))
          /\ Return("CommitError")
    /\ UNCHANGED <<Variable, todo, argVars, shVars, envVars, disk, wc, cfg, reps, cur, didUpdate, pkg>>

\* The short circuit is skipped: Run always goes on to write the configuration.
RunUpToDateNever ==
    /\ pc = "uptodate"
    /\ pc' = "write"
    /\ UNCHANGED <<Variable, todo, argVars, shVars, envVars, runVars>>

\* The up-to-date condition is returned whenever nothing was updated, flag
\* -u or not.
RunUpToDateUnasked ==
    /\ pc = "uptodate"
    /\ IF ~didUpdate
       THEN Return("WorkingCopiesUpToDate")
       ELSE pc' = "write" /\ UNCHANGED result
    /\ UNCHANGED <<Variable, todo, argVars, shVars, envVars, disk, wc, cfg, reps, cur, didUpdate, pkg, log>>

\* if upToDate := WorkingCopiesUpToDate(update && !didUpdate); upToDate { return upToDate }
RunUpToDate ==
    /\ pc = "uptodate"
    /\ IF update /\ ~didUpdate
       THEN Return("WorkingCopiesUpToDate")
       ELSE pc' = "write" /\ UNCHANGED result
    /\ UNCHANGED <<Variable, todo, argVars, shVars, envVars, disk, wc, cfg, reps, cur, didUpdate, pkg, log>>

\* The configuration is written and Run returns nil without assembling a
\* package.
RunWriteOnly ==
    /\ pc = "write"
    /\ log' = Append(log, Op("write", <<>>, TRUE))
    /\ disk' = cfg
    /\ Return("nil")
    /\ UNCHANGED <<Variable, todo, argVars, shVars, envVars, wc, cfg, reps, cur, didUpdate, pkg>>

\* err = cfg.Write(); if nil != err { return err }
RunWrite ==
    /\ pc = "write"
    /\ \/ /\ log' = Append(log, Op("write", <<>>, TRUE))
          /\ disk' = cfg
          /\ todo' = DOMAIN cfg.Package
          /\ pc' = "package"
          /\ UNCHANGED result
       \/ /\ log' = Append(log, Op("write", <<>>, FALSE))
          /\ Return("WriteError")
          /\ UNCHANGED <<disk, todo>>
    /\ UNCHANGED <<Variable, argVars, shVars, envVars, wc, cfg, reps, cur, didUpdate, pkg>>

\* filepath.IsAbs on a Unix path.
IsAbs(s) == s # <<>> /\ s[1] = "/"

\* filepath.Join(a, b) for two elements: empty elements are ignored.
Join(a, b) ==
    IF a = <<>> THEN b
    ELSE IF b = <<>> THEN a
    ELSE IF a[Len(a)] = "/" THEN a \o b
    ELSE a \o <<"/">> \o b

\* rep.LocalPath(): the working copy path given to vcs.NewSvnRepo, cfg.Wc().
LocalPath(rep) == Join(rep.cfg.Local, rep.cfg.Path)

\* regexp.Compile(s) succeeds: the patterns tried are plain text unless they
\* open a group that is never closed.
Compiles(s) == "(" \notin Range(s)

\* skipFunc(ignore...) returns no error.
SkipFuncOk(ignore) == \A i \in 1..Len(ignore) : Compiles(ignore[i])

\* strings.ToLower
ToLower(s) ==
    [i \in 1..Len(s) |->
        IF \E j \in 1..26 : UpperCase[j] = s[i]
        THEN LowerCase[CHOOSE j \in 1..26 : UpperCase[j] = s[i]]
        ELSE s[i]]

HasSuffix(s, x) == Len(x) <= Len(s) /\ SubSeq(s, Len(s) - Len(x) + 1, Len(s)) = x

eZip == <<".", "z", "i", "p">>
eTarGz == <<".", "t", "a", "r", ".", "g", "z">>
eTarBz2 == <<".", "t", "a", "r", ".", "b", "z", "2">>

\* The switch of makeArchiver on the method as written, without
\* strings.ToLower.
MethodExtCased(method) ==
    LET m == method
        dot(x) == {x, <<".">> \o x}
    IN  IF m \in dot(sZip) THEN eZip
        ELSE IF m \in dot(<<"g", "z">>) \cup dot(<<"t", "g", "z">>)
                       \cup {<<"t", "a", "r", "g", "z">>} \cup dot(<<"t", "a", "r", ".", "g", "z">>)
             THEN eTarGz
        ELSE IF m \in dot(<<"b", "z", "2">>) \cup dot(<<"t", "b", "z">>)
                       \cup dot(<<"t", "b", "z", "2">>) \cup {<<"t", "a", "r", "b", "z", "2">>}
                       \cup dot(<<"t", "a", "r", ".", "b", "z", "2">>)
             THEN eTarBz2
        ELSE <<>>

\* The switch of makeArchiver: the extension of the archiver selected for the
\* method, the empty string for the default case (InvalidCompressMethod).
MethodExt(method) ==
    LET m == ToLower(method)
        dot(x) == {x, <<".">> \o x}
    IN  IF m \in dot(sZip) THEN eZip
        ELSE IF m \in dot(<<"g", "z">>) \cup dot(<<"t", "g", "z">>)
                       \cup {<<"t", "a", "r", "g", "z">>} \cup dot(<<"t", "a", "r", ".", "g", "z">>)
             THEN eTarGz
        ELSE IF m \in dot(<<"b", "z", "2">>) \cup dot(<<"t", "b", "z">>)
                       \cup dot(<<"t", "b", "z", "2">>) \cup {<<"t", "a", "r", "b", "z", "2">>}
                       \cup dot(<<"t", "a", "r", ".", "b", "z", "2">>)
             THEN eTarBz2
        ELSE <<>>

\* arc.CheckExt(name) == nil for the archiver of extension ext.
CheckExtOk(ext, name) ==
    IF ext = eZip THEN HasSuffix(name, eZip)
    ELSE IF ext = eTarGz THEN HasSuffix(name, eTarGz) \/ HasSuffix(name, <<".", "t", "g", "z">>)
    ELSE HasSuffix(name, eTarBz2) \/ HasSuffix(name, <<".", "t", "b", "z", "2">>)

\* filepath.Ext(name): from the last '.' of the last path element.
Ext(name) ==
    LET dots == {i \in 1..Len(name) :
                    name[i] = "." /\ \A j \in i..Len(name) : name[j] # "/"}
    IN  IF dots = {} THEN <<>>
        ELSE SubSeq(name, CHOOSE i \in dots : \A j \in dots : j <= i, Len(name))

\* The output path makeArchiver returns for a recognised method.
ArchivePath(output, ext) ==
    IF CheckExtOk(ext, output) THEN output
    ELSE SubSeq(output, 1, Len(output) - Len(Ext(output))) \o ext

\* for pkgPath, pkg := range cfg.Package: the next rule, its path substituted.
RunPackage ==
    /\ pc = "package"
    /\ \E k \in todo, o \in Orders(DOMAIN Variable) :
          /\ pkg' = [NoPackage EXCEPT !.key = k,
                                      !.path = Substitute(k, Variable, o),
                                      !.inc = 1]
          /\ todo' = todo \ {k}
    /\ pc' = "include"
    /\ UNCHANGED <<Variable, argVars, shVars, envVars, disk, wc, cfg, reps, cur, didUpdate, result, log>>

\* The source of an include entry is its substituted key, whether or not the
\* key names a handle.
RunIncludeLiteral ==
    /\ pc = "include"
    /\ LET include == cfg.Package[pkg.key].Include
       IN  IF pkg.inc > Len(include)
           THEN pc' = "compress" /\ UNCHANGED pkg
           ELSE /\ \E o \in Orders(DOMAIN Variable) :
                     pkg' = [pkg EXCEPT
                               !.srcPath = Substitute(include[pkg.inc].key, Variable, o),
                               !.opi = 1]
                /\ pc' = "op"
    /\ UNCHANGED <<Variable, todo, argVars, shVars, envVars, disk, wc, cfg, reps, cur, didUpdate, result, log>>

\* for _, inc := range pkg.Include: the source of the next include entry is
\* the working copy of the handle its substituted key names, else the key.
RunInclude ==
    /\ pc = "include"
    /\ LET include == cfg.Package[pkg.key].Include
       IN  IF pkg.inc > Len(include)
           THEN pc' = "compress" /\ UNCHANGED pkg
           ELSE /\ \E o \in Orders(DOMAIN Variable) :
                     LET path == Substitute(include[pkg.inc].key, Variable, o)
                     IN  pkg' = [pkg EXCEPT
                                   !.srcPath = IF path \in DOMAIN reps
                                               THEN LocalPath(reps[path]) ELSE path,
                                   !.opi = 1]
                /\ pc' = "op"
    /\ UNCHANGED <<Variable, todo, argVars, shVars, envVars, disk, wc, cfg, reps, cur, didUpdate, result, log>>

\* The action names of the copy policies.
wDeep == <<"d", "e", "e", "p">>
wShallow == <<"s", "h", "a", "l", "l", "o", "w">>
wSkip == <<"s", "k", "i", "p">>
wMerge == <<"m", "e", "r", "g", "e">>
wReplace == <<"r", "e", "p", "l", "a", "c", "e">>
wIgnore == <<"i", "g", "n", "o", "r", "e">>
wUntouchable == <<"u", "n", "t", "o", "u", "c", "h", "a", "b", "l", "e">>

\* Constants defining default behaviors for file copy operations.
DefaultSymlinkAction == "Skip"
DefaultDirExistsAction == "Merge"

\* symlinkAction compares the action as written, without strings.ToLower.
symlinkActionCased(action) ==
    IF action = wDeep THEN "Deep"
    ELSE IF action = wShallow THEN "Shallow"
    ELSE DefaultSymlinkAction

\* symlinkAction: deep, shallow or skip in any case, else DefaultSymlinkAction.
symlinkAction(action) ==
    LET a == ToLower(action)
    IN  IF a = wDeep THEN "Deep"
        ELSE IF a = wShallow THEN "Shallow"
        ELSE IF a = wSkip THEN "Skip"
        ELSE DefaultSymlinkAction

\* dirExistsAction: merge, replace, or skip, ignore, untouchable in any case,
\* else DefaultDirExistsAction.
dirExistsAction(action) ==
    LET a == ToLower(action)
    IN  IF a = wMerge THEN "Merge"
        ELSE IF a = wReplace THEN "Replace"
        ELSE IF a \in {wSkip, wIgnore, wUntouchable} THEN "Untouchable"
        ELSE DefaultDirExistsAction

\* copyOptions(srcPath, pkgPath, cfg): source, destination, options and the
\* error of skipFunc.
copyOptions(srcPath, pkgPath, c) ==
    [src |-> IF IsAbs(c.Repo) THEN c.Repo ELSE Join(srcPath, c.Repo),
     dst |-> IF IsAbs(c.Package) THEN c.Package ELSE Join(pkgPath, c.Package),
     opt |-> [OnSymlink |-> symlinkAction(c.Symlinks),
              OnDirExists |-> dirExistsAction(c.Conflict),
              Sync |-> TRUE, PreserveTimes |-> TRUE],
     err |-> IF SkipFuncOk(c.Ignore) THEN "nil" ELSE "InvalidIgnorePattern"]

\* An operation is passed over only if it has neither source nor
\* destination.
RunCopyOptionsEither ==
    /\ pc = "op"
    /\ LET list == cfg.Package[pkg.key].Include[pkg.inc].list
           id == <<pkg.key, pkg.inc, pkg.opi>>
       IN  IF pkg.opi > Len(list)
           THEN /\ pkg' = [pkg EXCEPT !.inc = @ + 1]
                /\ pc' = "include"
                /\ UNCHANGED <<result, log, cfg>>
           ELSE LET cp == list[pkg.opi]
                IN  IF cp.Repo # <<>> \/ cp.Package # <<>>
                    THEN \E o \in Orders(DOMAIN Variable) :
                           LET c == [cp EXCEPT
                                       !.Repo = Substitute(@, Variable, o),
                                       !.Package = Substitute(@, Variable, o),
                                       !.Ignore = [i \in 1..Len(cp.Ignore) |->
                                                     Substitute(cp.Ignore[i], Variable, o)]]
                               r == copyOptions(pkg.srcPath, pkg.path, c)
                           IN  /\ log' = Append(log, Op("compile", id, r.err = "nil"))
                               /\ pkg' = [pkg EXCEPT !.cp = c, !.src = r.src,
                                                     !.dst = r.dst, !.opt = r.opt]
                               /\ cfg' = [cfg EXCEPT
                                            !.Package[pkg.key].Include[pkg.inc]
                                               .list[pkg.opi].Ignore = c.Ignore]
                               /\ IF r.err = "nil"
                                  THEN pc' = "copy" /\ UNCHANGED result
                                  ELSE Return(r.err)
                    ELSE /\ pkg' = [pkg EXCEPT !.opi = @ + 1]
                         /\ UNCHANGED <<pc, result, log, cfg>>
    /\ UNCHANGED <<Variable, todo, argVars, shVars, envVars, disk, wc, reps, cur, didUpdate>>

\* for _, op := range incList: an operation with a source and a destination
\* has its fields substituted and its options made by copyOptions, which
\* compiles the ignore patterns; any other operation is passed over. cp is a
\* copy of op.Copy whose Ignore shares its elements with the configuration:
\* the substituted patterns are stored into cfg.
RunCopyOptions ==
    /\ pc = "op"
    /\ LET list == cfg.Package[pkg.key].Include[pkg.inc].list
           id == <<pkg.key, pkg.inc, pkg.opi>>
       IN  IF pkg.opi > Len(list)
           THEN /\ pkg' = [pkg EXCEPT !.inc = @ + 1]
                /\ pc' = "include"
                /\ UNCHANGED <<result, log, cfg>>
           ELSE LET cp == list[pkg.opi]
                IN  IF cp.Repo # <<>> /\ cp.Package # <<>>
                    THEN \E o \in Orders(DOMAIN Variable) :
                           LET c == [cp EXCEPT
                                       !.Repo = Substitute(@, Variable, o),
                                       !.Package = Substitute(@, Variable, o),
                                       !.Ignore = [i \in 1..Len(cp.Ignore) |->
                                                     Substitute(cp.Ignore[i], Variable, o)]]
                               r == copyOptions(pkg.srcPath, pkg.path, c)
                           IN  /\ log' = Append(log, Op("compile", id, r.err = "nil"))
                               /\ pkg' = [pkg EXCEPT !.cp = c, !.src = r.src,
                                                     !.dst = r.dst, !.opt = r.opt]
                               /\ cfg' = [cfg EXCEPT
                                            !.Package[pkg.key].Include[pkg.inc]
                                               .list[pkg.opi].Ignore = c.Ignore]
                               /\ IF r.err = "nil"
                                  THEN pc' = "copy" /\ UNCHANGED result
                                  ELSE Return(r.err)
                    ELSE /\ pkg' = [pkg EXCEPT !.opi = @ + 1]
                         /\ UNCHANGED <<pc, result, log, cfg>>
    /\ UNCHANGED <<Variable, todo, argVars, shVars, envVars, disk, wc, reps, cur, didUpdate>>

\* The error of copy.Copy is dropped: the loop goes on to the next operation.
RunCopyContinue ==
    /\ pc = "copy"
    /\ \E ok \in BOOLEAN :
          log' = Append(log, Op("copy", <<pkg.key, pkg.inc, pkg.opi>>, ok))
    /\ pkg' = [pkg EXCEPT !.opi = @ + 1]
    /\ pc' = "op"
    /\ UNCHANGED <<Variable, todo, argVars, shVars, envVars, disk, wc, cfg, reps, cur, didUpdate, result>>

\* err = copy.Copy(src, dst, opt); if nil != err { return err }
RunCopy ==
    /\ pc = "copy"
    /\ \/ /\ log' = Append(log, Op("copy", <<pkg.key, pkg.inc, pkg.opi>>, TRUE))
          /\ pkg' = [pkg EXCEPT !.opi = @ + 1]
          /\ pc' = "op"
          /\ UNCHANGED result
       \/ /\ log' = Append(log, Op("copy", <<pkg.key, pkg.inc, pkg.opi>>, FALSE))
          /\ Return("CopyError")
          /\ UNCHANGED pkg
    /\ UNCHANGED <<Variable, todo, argVars, shVars, envVars, disk, wc, cfg, reps, cur, didUpdate>>

\* if pkg.Compress.Output != "": the output path is substituted and
\* makeArchiver selects the archiver of the method.
RunMakeArchiver ==
    /\ pc = "compress"
    /\ LET compress == cfg.Package[pkg.key].Compress
       IN  IF compress.Output = <<>>
           THEN pc' = "package" /\ UNCHANGED <<pkg, result, log>>
           ELSE \E o \in Orders(DOMAIN Variable) :
                  LET output == Substitute(compress.Output, Variable, o)
                      ext == MethodExt(compress.Method)
                  IN  /\ log' = Append(log, Op("archiver", pkg.key, ext # <<>>))
                      /\ IF ext # <<>>
                         THEN /\ pkg' = [pkg EXCEPT !.arcPath = ArchivePath(output, ext)]
                              /\ pc' = "archive"
                              /\ UNCHANGED result
                         ELSE /\ Return("InvalidCompressMethod")
                              /\ UNCHANGED pkg
    /\ UNCHANGED <<Variable, todo, argVars, shVars, envVars, disk, wc, cfg, reps, cur, didUpdate>>

\* The error of arc.Archive is dropped: the loop goes on to the next rule.
RunArchiveContinue ==
    /\ pc = "archive"
    /\ \E ok \in BOOLEAN : log' = Append(log, Op("archive", pkg.key, ok))
    /\ pc' = "package"
    /\ UNCHANGED <<Variable, todo, argVars, shVars, envVars, disk, wc, cfg, reps, cur, didUpdate, pkg, result>>

\* err = arc.Archive([]string{pkgPath}, arcPath); if nil != err { return err }
RunArchive ==
    /\ pc = "archive"
    /\ \/ /\ log' = Append(log, Op("archive", pkg.key, TRUE))
          /\ pc' = "package"
          /\ UNCHANGED result
       \/ /\ log' = Append(log, Op("archive", pkg.key, FALSE))
          /\ Return("ArchiveError")
    /\ UNCHANGED <<Variable, todo, argVars, shVars, envVars, disk, wc, cfg, reps, cur, didUpdate, pkg>>

\* The package loop has no rule left: return nil.
RunReturnNil ==
    /\ pc = "package"
    /\ todo = {}
    /\ Return("nil")
    /\ UNCHANGED <<Variable, todo, argVars, shVars, envVars, disk, wc, cfg, reps, cur, didUpdate, pkg, log>>

\* defer sh.Close(): runs on every return of Run, on a record whose Closer is
\* set. Close returns what s.Closer.Close() returns; the deferred call drops
\* that error, and Run returns what it was returning.
RunClose ==
    /\ pc = "return"
    /\ \E ok \in BOOLEAN : log' = Append(log, Op("close", <<>>, ok))
    /\ pc' = "exit"
    /\ UNCHANGED <<Variable, todo, argVars, shVars, envVars, disk, wc, cfg, reps, cur, didUpdate, pkg, result>>

\* A commit to the remote of an entry, after the previous invocation and
\* before this one does anything; one commit between two invocations.
RemoteCommit ==
    /\ pc = "run"
    /\ run > 1
    /\ log = <<>>
    /\ ~changed
    /\ todo = DOMAIN vars
    /\ \E e \in DOMAIN remote, n \in 1..(MaxRev - 1) :
          /\ remote[e] = RevStr(n)
          /\ remote' = [remote EXCEPT ![e] = RevStr(n + 1)]
    /\ changed' = TRUE
    /\ UNCHANGED <<pc, Variable, todo, argVars, shVars, run, update, fs, prev, exitCode,
                   runVars>>

\* main's switch on the type of the error Run returned: the exit status of
\* each case, 99 for any other error, 0 when main returns after a nil; a
\* panic ends the process with the status 2 of the Go runtime.
ExitCode(err) ==
    CASE err = "DirectoryNotFoundError" -> 10
      [] err = "ConfigFileNotFoundError" -> 11
      [] err = "InvalidPathError" -> 12
      [] err = "NotRegularFileError" -> 13
      [] err = "FileExistsError" -> 14
      [] err = "InvalidRepositoryError" -> 20
      [] err = "ConnectionFailedError" -> 21
      [] err = "ExportFailedError" -> 22
      [] err = "UnknownRevisionError" -> 23
      [] err = "InvalidIgnorePattern" -> 100
      [] err = "WorkingCopiesUpToDate" -> 2
      [] err = "panic" -> 2
      [] err = "nil" -> 0
      [] OTHER -> 99

\* The paths of flag -x for which makeShellEnv sets the record's Closer: "-"
\* (Writer and Closer os.Stdout), "+" (os.Stderr) and the path of a file it
\* creates.
sStdout == <<"-">>
sStderr == <<"+">>
sFile == <<"f">>
ExportEnvPaths == {sStdout, sStderr, sFile}

\* The errors after which main calls usage when flag -f was not given.
UsageErrors == {"ConfigFileNotFoundError", "InvalidPathError", "NotRegularFileError"}

\* What is printed to os.Stderr once Run is over: the usage by main, the
\* message of a panic by the Go runtime.
WritesStderr(err, configFileProvided) ==
    \/ err = "panic"
    \/ err \in UsageErrors /\ ~configFileProvided

\* main after run.Run has returned: the process exits. The path of -x and
\* whether -f was given are fixed before Run and matter only here: a write to
\* os.Stderr fails when os.Stderr was the record's Closer, which Run closed.
MainExit ==
    /\ pc = "exit"
    /\ exitCode' = ExitCode(result)
    /\ pc' = "exited"
    /\ log' \in { IF WritesStderr(result, configFileProvided)
                   THEN Append(log, Op("stderr", <<>>, exportEnvPath # sStderr))
                   ELSE log :
                   exportEnvPath \in ExportEnvPaths, configFileProvided \in BOOLEAN }
    /\ UNCHANGED <<Variable, todo, argVars, shVars, run, update, remote, changed, fs, prev,
                   disk, wc, cfg, reps, cur, didUpdate, pkg, result>>

\* The next invocation of the process, on the same command line but for -u.
NextRun ==
    /\ pc = "exited"
    /\ run < MaxRuns
    /\ run' = run + 1
    /\ update' \in BOOLEAN
    /\ pc' = "run"
    /\ Variable' = VariableInit
    /\ todo' = DOMAIN vars
    /\ cfg' = NoConfig
    /\ reps' = EmptyMap
    /\ cur' = NoHandle
    /\ didUpdate' = FALSE
    /\ pkg' = NoPackage
    /\ result' = "running"
    /\ log' = <<>>
    /\ changed' = FALSE
    /\ prev' = (result = "nil")
    /\ exitCode' = NoExit
    /\ section' = <<>>
    /\ calls' = <<>>
    /\ UNCHANGED <<argVars, remote, fs, disk, wc>>

Next ==
    \/ RunCopyVariable
    \/ RunParse
    \/ RunNewRepo
    \/ RunIsConnected
    \/ RunExport
    \/ RunRevision
    \/ RunCommit
    \/ RunUpToDate
    \/ RunWrite
    \/ RunPackage
    \/ RunInclude
    \/ RunCopyOptions
    \/ RunCopy
    \/ RunMakeArchiver
    \/ RunArchive
    \/ RunReturnNil
    \/ RunClose
    \/ MainExit
    \/ RemoteCommit
    \/ NextRun

Spec == Init /\ [][Next]_allVars

(***************************************************************************)
(* SpecOpt: copyOptions applied to one copy operation                      *)
(***************************************************************************)
\* Spellings of the word w tried: lower case, upper case, first letter upper
\* case, all but the first letter upper case.
Casings(w) ==
    { w, ToUpper(w), SubSeq(ToUpper(w), 1, 1) \o Tail(w), SubSeq(w, 1, 1) \o Tail(ToUpper(w)) }

\* The conflict and symlinks strings tried: the spellings of every action
\* name, the empty string and strings that name no action of the policy.
PolicyWords == {wDeep, wShallow, wSkip, wMerge, wReplace, wIgnore, wUntouchable}
PolicySet ==
    UNION {Casings(w) : w \in PolicyWords}
       \cup { <<>>, <<"x">>, <<"m", "e", "r", "g", "e", "d">>, <<" ", "s", "k", "i", "p">> }

InitOpt ==
    /\ pc = "copyOptions"
    /\ argv = <<>>
    /\ vars = EmptyMap
    /\ Variable = VariableInit
    /\ todo = {}
    /\ field = <<>>
    /\ subst = NoSubst
    /\ run = 1
    /\ update = FALSE
    /\ disk = NoConfig
    /\ remote = EmptyMap
    /\ wc = EmptyMap
    /\ changed = FALSE
    /\ fs = NoFs
    /\ prev = FALSE
    /\ exitCode = NoExit
    /\ cfg = NoConfig
    /\ reps = EmptyMap
    /\ cur = NoHandle
    /\ didUpdate = FALSE
    /\ \E conflict \in PolicySet, symlinks \in PolicySet :
          pkg = [NoPackage EXCEPT
                   !.srcPath = <<"w">>,
                   !.path = <<"p">>,
                   !.cp = [CopyConfig(<<"s">>, <<"d">>, <<>>) EXCEPT
                             !.Conflict = conflict, !.Symlinks = symlinks]]
    /\ result = "running"
    /\ log = <<>>
    /\ section = <<>>
    /\ calls = <<>>

\* src, dst, opt, err := copyOptions(srcPath, pkgPath, cp)
CopyOptions ==
    /\ pc = "copyOptions"
    /\ LET r == copyOptions(pkg.srcPath, pkg.path, pkg.cp)
       IN  /\ pkg' = [pkg EXCEPT !.src = r.src, !.dst = r.dst, !.opt = r.opt]
           /\ result' = r.err
    /\ pc' = "options"
    /\ UNCHANGED <<Variable, todo, argVars, shVars, envVars, disk, wc, cfg, reps, cur, didUpdate, log>>

NextOpt == CopyOptions

SpecOpt == InitOpt /\ [][NextOpt]_allVars

(***************************************************************************)
(* Claims about run.Run (under Spec)                                       *)
\* The string a is the word w (in lower case) in some casing.
AnyCasing(a, w) ==
    /\ Len(a) = Len(w)
    /\ \A i \in 1..Len(w) : a[i] \in {w[i], ToUpper(w)[i]}
(***************************************************************************)
FetchOps == {"update", "checkout"}
PackageOps == {"compile", "copy", "archiver", "archive"}

Idx == 1..Len(log)

HasOp(names) == \E i \in Idx : log[i].op \in names

\* Run has returned (its deferred Close may still be to run).
Returned == pc \in {"return", "exit", "exited"}

\* The entry e was fetched and its revision reported before the i-th operation.
FetchedBefore(e, i) ==
    \E j, k \in Idx :
        /\ j < k /\ k < i
        /\ log[j].op \in FetchOps /\ log[j].on = e /\ log[j].ok
        /\ log[k] = Op("revision", e, TRUE)

\* C1 (as claimed): the configuration is written only after every export
\* entry was fetched and reported a revision; a run whose fetch or revision
\* query fails does not write the configuration.
C1_WriteAfterAllFetched ==
    /\ \A i \in Idx : log[i].op = "write" =>
          \A e \in DOMAIN cfg.Export : FetchedBefore(e, i)
    /\ result \in {"ExportFailedError", "UnknownRevisionError"} => ~HasOp({"write"})

\* C2 (as claimed): the up-to-date condition is signalled after the
\* configuration was persisted and the record committed, before any copy or
\* archive.
C2_AfterConfigPersisted ==
    result = "WorkingCopiesUpToDate" =>
        /\ \E i \in Idx : log[i] = Op("write", <<>>, TRUE)
        /\ \E i \in Idx : log[i] = Op("commit", <<>>, TRUE)
        /\ ~HasOp(PackageOps)

\* C2 (amended): with update set and didUpdate false, Run returns the
\* up-to-date condition once the record is committed, without writing the
\* configuration in that run and before any copy or archive.
C2_ShortCircuit ==
    /\ result = "WorkingCopiesUpToDate" =>
          /\ update /\ ~didUpdate
          /\ \E i \in Idx : log[i] = Op("commit", <<>>, TRUE)
          /\ ~HasOp({"write"} \cup PackageOps)
    /\ (update /\ ~didUpdate) => ~HasOp({"write"} \cup PackageOps)
    /\ (Returned /\ update /\ ~didUpdate /\ \E i \in Idx : log[i] = Op("commit", <<>>, TRUE))
          => result = "WorkingCopiesUpToDate"

C2_Witness ==
    /\ pc = "return"
    /\ result = "WorkingCopiesUpToDate"
    /\ \E i \in Idx : log[i].op = "update" /\ log[i].ok
    /\ log[Len(log)] = Op("commit", <<>>, TRUE)

\* C3 (as claimed): at the end of the export phase didUpdate is true exactly
\* if some fetched entry's revision differs from the revision stored for that
\* entry, whatever the entry's name.
C3_DirtyIffRevisionDiffers ==
    pc = "commit" =>
        (didUpdate <=>
            \E e \in DOMAIN disk.Export :
                /\ FetchedBefore(e, Len(log) + 1)
                /\ wc[e] # disk.Export[e].Last)

\* C4 (as claimed): a run after a complete run, no remote having changed in
\* between, leaves didUpdate false, and with update set it ends up to date
\* without writing, copying or archiving.
C4_SecondRunClean ==
    (run > 1 /\ prev /\ ~changed) =>
        /\ ~didUpdate
        /\ update => ~HasOp({"write"} \cup PackageOps)
        /\ (update /\ Returned /\ \E i \in Idx : log[i] = Op("commit", <<>>, TRUE))
              => result = "WorkingCopiesUpToDate"

\* C5: a fetch on an entry's handle follows a successful reachability check
\* of that entry; a failed check is the run's last operation, Run returns
\* ConnectionFailed, and that run fetches nothing.
C5_NoFetchWithoutPing ==
    /\ \A i \in Idx : log[i].op \in FetchOps =>
          \E j \in 1..(i - 1) : log[j] = Op("ping", log[i].on, TRUE)
    /\ \A i \in Idx : (log[i].op = "ping" /\ ~log[i].ok) =>
          /\ result = "ConnectionFailedError"
          /\ \A j \in (i + 1)..Len(log) : log[j].op = "close"
    /\ result = "ConnectionFailedError" =>
          /\ ~HasOp(FetchOps)
          /\ \E i \in Idx : log[i].op = "ping" /\ ~log[i].ok

C5_Witness ==
    /\ pc = "return"
    /\ result = "ConnectionFailedError"
    /\ \E i \in Idx : log[i].op = "ping" /\ log[i].ok
    /\ log[Len(log)].op = "ping" /\ ~log[Len(log)].ok

\* C6 (as claimed): an entry's handle construction begins only when every
\* entry begun before it has been fetched and has reported its revision.
C6_OneEntryAtATime ==
    \A i, j \in Idx :
        (i < j /\ log[i].op = "new" /\ log[j].op = "new") =>
            \E k \in i..j : log[k] = Op("revision", log[i].on, TRUE)

\* C6 (amended): operations run one at a time in two loops. The reachability
\* check of an entry directly follows its handle construction; the revision
\* query of a handle directly follows its fetch; and every construction and
\* check of the run precedes its first fetch.
C6_TwoPhaseSequential ==
    /\ \A i \in Idx : log[i].op = "ping" =>
          i > 1 /\ log[i - 1] = Op("new", log[i].on, TRUE)
    /\ \A i \in Idx : (log[i].op = "new" /\ log[i].ok /\ i < Len(log)) =>
          log[i + 1].op = "ping"
    /\ \A i \in Idx : log[i].op = "revision" =>
          i > 1 /\ log[i - 1].op \in FetchOps /\ log[i - 1].on = log[i].on /\ log[i - 1].ok
    /\ \A i \in Idx : (log[i].op \in FetchOps /\ log[i].ok /\ i < Len(log)) =>
          log[i + 1].op = "revision"
    /\ \A i, j \in Idx :
          (log[i].op \in {"new", "ping"} /\ log[j].op \in FetchOps \cup {"revision"}) => i < j
    /\ (HasOp(FetchOps) /\ cfg # NoConfig) =>
          \A e \in DOMAIN cfg.Export : \E i \in Idx : log[i] = Op("ping", e, TRUE)

C6_Witness ==
    /\ pc = "commit"
    /\ \E i, j \in Idx :
          /\ i < j
          /\ log[i].op = "revision" /\ log[j].op = "revision"
          /\ log[i].on # log[j].on

\* The error Run returns when the operation named op fails.
ErrorsOf(op) ==
    CASE op = "parse" -> ParseErrors
      [] op = "new" -> {"InvalidRepositoryError"}
      [] op = "ping" -> {"ConnectionFailedError"}
      [] op \in FetchOps -> {"ExportFailedError"}
      [] op = "revision" -> {"UnknownRevisionError"}
      [] op = "commit" -> {"CommitError"}
      [] op = "write" -> {"WriteError"}
      [] op = "compile" -> {"InvalidIgnorePattern"}
      [] op = "copy" -> {"CopyError"}
      [] op = "archiver" -> {"InvalidCompressMethod"}
      [] op = "archive" -> {"ArchiveError"}
      [] OTHER -> {}

\* The same operation on the same entry, handle or copy operation.
SameOperation(a, b) ==
    /\ a.on = b.on
    /\ a.op = b.op \/ {a.op, b.op} \subseteq FetchOps

\* What follows the steps of Run: the deferred close, and what main or the
\* runtime prints to os.Stderr once Run is over.
AfterSteps == {"close", "stderr"}

\* C7: a failed step is the last operation of the run but for the deferred
\* close and what main prints after it, Run returns that step's error, and
\* no operation is made twice on the same entry or copy operation in one run.
C7_FailFast ==
    /\ \A i \in Idx : (~log[i].ok /\ log[i].op \notin AfterSteps) =>
          /\ Returned
          /\ result \in ErrorsOf(log[i].op)
          /\ \A j \in (i + 1)..Len(log) : log[j].op \in AfterSteps
    /\ result \notin {"running", "nil", "WorkingCopiesUpToDate"} =>
          \E i \in Idx : ~log[i].ok
    /\ \A i, j \in Idx : (i < j) => ~SameOperation(log[i], log[j])

C7_Witness ==
    /\ pc = "return"
    /\ result = "CopyError"
    /\ \E i \in Idx : log[i].op = "copy" /\ log[i].ok
    /\ log[Len(log)].op = "copy" /\ ~log[Len(log)].ok

\* The step narrates a fetch as the last operation of the log.
FetchStep ==
    /\ Len(log') = Len(log) + 1
    /\ log'[Len(log')].op \in FetchOps

\* C14: the mode of a fetch is update if the entry's working copy exists when
\* the fetch is decided and checkout if it does not, whatever revision is
\* stored for the entry and however the run before ended.
C14_ModeByLocalCopy ==
    [][FetchStep =>
          LET e == log'[Len(log')].on
          IN  log'[Len(log')].op = (IF wc[e] # NoWC THEN "update" ELSE "checkout")]_allVars

\* C14 witness: an update of an entry that has no stored revision, the run
\* before having fetched it and failed before the configuration was written.
C14_Witness ==
    /\ run > 1 /\ ~prev
    /\ log # <<>>
    /\ log[Len(log)].op = "update" /\ log[Len(log)].ok
    /\ disk.Export[log[Len(log)].on].Last = <<>>

\* C16 (as claimed): when an ignore pattern of a copy operation does not
\* compile, Run returns InvalidIgnorePattern, the copier is not called for
\* that operation, and by then every export entry was fetched, the record
\* committed and the configuration written with the fetched revisions.
C16_IgnorePatternAbort ==
    /\ \A i \in Idx : (log[i].op = "compile" /\ ~log[i].ok) =>
          /\ result = "InvalidIgnorePattern"
          /\ \A j \in Idx : ~(log[j].op = "copy" /\ log[j].on = log[i].on)
          /\ \A e \in DOMAIN cfg.Export : FetchedBefore(e, i)
          /\ \E j \in 1..(i - 1) : log[j] = Op("commit", <<>>, TRUE)
          /\ \E j \in 1..(i - 1) : log[j] = Op("write", <<>>, TRUE)
          /\ \A e \in DOMAIN disk.Export : disk.Export[e].Last = wc[e]
    /\ result = "InvalidIgnorePattern" =>
          \E i \in Idx : log[i].op = "compile" /\ ~log[i].ok

\* The operations of the two loops over the export entries.
ExportOps == {"new", "ping", "revision"} \cup FetchOps

\* The export phase of the run is over and was not cut short by an error.
ExportPhaseDone ==
    \/ pc \in {"uptodate", "write", "package", "include", "op", "copy", "compress", "archive"}
    \/ /\ Returned
       /\ result \in {"nil", "WorkingCopiesUpToDate", "CommitError", "WriteError",
                      "InvalidIgnorePattern", "CopyError", "InvalidCompressMethod",
                      "ArchiveError"}

\* C17: a run that completes the export phase commits the record exactly
\* once, after every operation of the export loops and before the
\* configuration write and every package operation.
C17_CommitOnce ==
    /\ \A i, j \in Idx : (log[i].op = "commit" /\ log[j].op = "commit") => i = j
    /\ ExportPhaseDone => \E i \in Idx : log[i].op = "commit"
    /\ \A i, j \in Idx : log[i].op = "commit" =>
          /\ log[j].op \in ExportOps => j < i
          /\ log[j].op \in {"write"} \cup PackageOps => i < j
    /\ \A i \in Idx : log[i].op = "commit" =>
          \A name \in DOMAIN reps :
             \E j \in 1..(i - 1) : log[j] = Op("revision", reps[name].entry, TRUE)

\* C17 witness: a run that fetched an entry, committed the record, wrote the
\* configuration and returned nil after a copy.
C17_Witness ==
    /\ pc = "return"
    /\ result = "nil"
    /\ \E i, j, k, m \in Idx :
          /\ i < j /\ j < k /\ k < m
          /\ log[i].op = "revision"
          /\ log[j] = Op("commit", <<>>, TRUE)
          /\ log[k] = Op("write", <<>>, TRUE)
          /\ log[m].op = "copy"

\* The copy operations (rule, include entry, operation) of the configuration
\* that have a source and a destination.
CopyOpsOf(c) ==
    UNION { UNION { { <<k, n, m>> : m \in { x \in 1..Len(c.Package[k].Include[n].list) :
                                             /\ c.Package[k].Include[n].list[x].Repo # <<>>
                                             /\ c.Package[k].Include[n].list[x].Package # <<>> } } :
                    n \in 1..Len(c.Package[k].Include) } :
            k \in DOMAIN c.Package }

\* C18 (as claimed): in a successful run the configuration is written, then
\* every package rule is assembled, and the record is serialized last.
C18_RecordSerializedLast ==
    (Returned /\ result = "nil") =>
        \E w, c \in Idx :
            /\ log[w] = Op("write", <<>>, TRUE)
            /\ log[c] = Op("commit", <<>>, TRUE)
            /\ \A i \in Idx : log[i].op \in PackageOps => (w < i /\ i < c)
            /\ w < c

\* C18 (amended): in a successful run the record is serialized first, then
\* the configuration is written, then every package rule is assembled (each
\* copy operation copied, each rule with an output archived); nothing but the
\* closing of the record sink follows.
C18_CommitWriteAssemble ==
    (Returned /\ result = "nil") =>
        \E c, w \in Idx :
            /\ log[c] = Op("commit", <<>>, TRUE)
            /\ log[w] = Op("write", <<>>, TRUE)
            /\ c < w
            /\ \A i \in Idx : log[i].op \in PackageOps => w < i
            /\ \A i \in Idx : (log[i].op \notin PackageOps \cup {"close"}) => i <= w
            /\ \A id \in CopyOpsOf(cfg) :
                  \E i \in Idx : i > w /\ log[i] = Op("copy", id, TRUE)
            /\ \A k \in DOMAIN cfg.Package :
                  cfg.Package[k].Compress.Output # <<>> =>
                     \E i \in Idx : i > w /\ log[i] = Op("archive", k, TRUE)
            /\ \A i \in Idx : log[i].op = "close" => i = Len(log)

\* C18 witness: a successful run that assembled two package rules.
C18_Witness ==
    /\ pc = "exit"
    /\ result = "nil"
    /\ \E i, j \in Idx :
          /\ log[i].op = "copy" /\ log[j].op = "copy"
          /\ log[i].on[1] # log[j].on[1]
    /\ \E i \in Idx : log[i].op = "archive"
    /\ log[Len(log)].op = "close"

\* The four error kinds of package config that Parse returns.
ConfigErrors ==
    { "DirectoryNotFoundError", "InvalidPathError", "ConfigFileNotFoundError",
      "NotRegularFileError" }

\* C20 (as claimed): whatever Parse finds, it returns the configuration, or
\* DirectoryNotFound (directory missing), InvalidPath (parent not a
\* directory), ConfigFileNotFound (file missing) or NotRegularFile (file not
\* regular), tested in that order, and it fails in no other way.
C20_ParseOutcomes ==
    \A i \in Idx : log[i].op = "parse" =>
        IF log[i].ok
        THEN fs.dir = "dir" /\ fs.file = "regular" /\ result \notin ParseErrors
        ELSE /\ result \in ConfigErrors
             /\ result = "DirectoryNotFoundError" <=> fs.dir = "missing"
             /\ result = "InvalidPathError" <=> fs.dir = "file"
             /\ result = "ConfigFileNotFoundError" <=> (fs.dir = "dir" /\ fs.file = "missing")
             /\ result = "NotRegularFileError" <=> (fs.dir = "dir" /\ fs.file = "dir")

\* The error kinds the claim names.
NamedKinds ==
    ConfigErrors \cup
    { "InvalidRepositoryError", "ConnectionFailedError", "ExportFailedError",
      "UnknownRevisionError", "InvalidIgnorePattern", "InvalidCompressMethod",
      "WorkingCopiesUpToDate" }

\* C19 (as claimed): when Run ends with one of the named kinds, the exit
\* status of the process is that kind's own: not the status of any other
\* named kind, not the catch-all 99 and not 0.
C19_ExitCodePerKind ==
    (pc = "exited" /\ result \in NamedKinds) =>
        /\ exitCode \notin {0, 99}
        /\ \A k \in NamedKinds \ {result} : ExitCode(k) # exitCode

\* The returns of Run that are no fault: nil and the up-to-date condition.
NoFault == {"nil", "WorkingCopiesUpToDate"}

\* C21 (as claimed): every error raised by a step of Run, the closing of the
\* record sink included, is returned to the caller: a run in which a step
\* failed does not end with nil or with the up-to-date condition, and a run
\* that ends with a fault has a failed step.
C21_NoErrorSwallowed ==
    pc \in {"exit", "exited"} =>
        /\ (\E i \in Idx : ~log[i].ok) => result \notin NoFault
        /\ result \notin NoFault => \E i \in Idx : ~log[i].ok

\* The name an export entry is registered under: its key after one of the
\* substitution loops.
SubstitutedNames(e) == {Substitute(e, Variable, o) : o \in Orders(DOMAIN Variable)}

\* C22 (as claimed): when the record is committed after the export phase,
\* the section named for each export entry holds, in this order, the keys
\* REPO_<NAME>_URL, _LOCAL, _PREVREV and _CURRREV with the locator joined to
\* the sub-path by one '/', the local path, the revision stored for the
\* entry before this run and the revision fetched in this run; the entry L
\* with locator h/l and path t has REPO_L_URL="h/l/t".
C22_RecordPerEntry ==
    pc = "uptodate" =>
        /\ \A e \in DOMAIN cfg.Export : \A o \in Orders(DOMAIN Variable) :
              LET name == Substitute(e, Variable, o)
                  expo == cfg.Export[e]
                  K(x) == SanitizeKey(sREPO \o name \o x)
                  n == SectionIndex(section, name)
              IN  /\ n > 0
                  /\ section[n].env.key = << K(sURL), K(sLOCAL), K(sPREVREV), K(sCURRREV) >>
                  /\ section[n].env.val =
                        << TrimRight(Substitute(expo.Repo, Variable, o), {"/"}) \o <<"/">>
                              \o TrimLeft(Substitute(expo.Path, Variable, o), {"/"}),
                           Substitute(expo.Local, Variable, o),
                           disk.Export[e].Last,
                           wc[e] >>
        /\ nL \in DOMAIN cfg.Export =>
              LET n == SectionIndex(section, nL)
              IN  /\ n > 0
                  /\ section[n].env.key[1] = <<"R", "E", "P", "O", "_", "L", "_", "U", "R", "L">>
                  /\ section[n].env.val[1] = <<"h", "/", "l", "/", "t">>

\* The entries whose fetch succeeded and whose revision was reported in this
\* run.
Reported == {log[i].on : i \in {j \in Idx : log[j].op = "revision" /\ log[j].ok}}

\* C23 (as claimed): once the fetch of an entry has succeeded and its
\* revision is reported, the last revision stored for the entry in Run's
\* configuration is the fetched revision, and the configuration written in
\* that run carries the fetched revision of every such entry, whatever the
\* entry's name.
C23_LastIsFetched ==
    /\ \A e \in Reported : cfg.Export[e].Last = wc[e]
    /\ (\E i \in Idx : log[i] = Op("write", <<>>, TRUE)) =>
          \A e \in Reported : disk.Export[e].Last = wc[e]

\* C24 (as claimed): after the connect phase every export entry has a
\* handle of its own: reps has as many handles as the configuration has
\* export entries, also when substitution changes entry names.
C24_HandlePerEntry ==
    pc \in {"export", "revision"} =>
        /\ Cardinality(DOMAIN reps) = Cardinality(DOMAIN cfg.Export)
        /\ \A e \in DOMAIN cfg.Export :
              \E name \in DOMAIN reps : reps[name].entry = e

\* C25: for the copy operation about to be copied, the source root is the
\* working-copy path (local joined with path) of the handle named by the
\* include entry's substituted key if there is one, else that key; the source
\* is the root joined with the operation's substituted source unless that is
\* absolute, the destination the substituted rule path joined with the
\* operation's substituted destination unless that is absolute. In the rule p
\* of ZipMap: from the handle L (local wl, path t) s goes from wl/t/s to
\* p/d and /s from /s to /d; from the literal key lit s goes from lit/s.
C25_SourceResolution ==
    pc = "copy" =>
        LET inc == cfg.Package[pkg.key].Include[pkg.inc]
            op == inc.list[pkg.opi]
            sep == <<"/">>
        IN  /\ \E o \in Orders(DOMAIN Variable) :
                  LET key == Substitute(inc.key, Variable, o)
                  IN  pkg.srcPath = IF key \in DOMAIN reps
                                    THEN reps[key].cfg.Local \o sep \o reps[key].cfg.Path
                                    ELSE key
            /\ \E o \in Orders(DOMAIN Variable) :
                  LET from == Substitute(op.Repo, Variable, o)
                      to == Substitute(op.Package, Variable, o)
                  IN  /\ pkg.src = IF from[1] = "/" THEN from ELSE pkg.srcPath \o sep \o from
                      /\ pkg.dst = IF to[1] = "/" THEN to
                                   ELSE Substitute(pkg.key, Variable, o) \o sep \o to
            /\ cfg.Package = ZipMap =>
                  /\ <<pkg.inc, pkg.opi>> = <<1, 1>> =>
                        /\ pkg.src = <<"w", "l", "/", "t", "/", "s">>
                        /\ pkg.dst = <<"p", "/", "d">>
                  /\ <<pkg.inc, pkg.opi>> = <<1, 3>> =>
                        /\ pkg.src = <<"/", "s">>
                        /\ pkg.dst = <<"/", "d">>
                  /\ <<pkg.inc, pkg.opi>> = <<2, 1>> =>
                        /\ pkg.src = <<"l", "i", "t", "/", "s">>
                        /\ pkg.dst = <<"p", "/", "d">>

\* C25 witness: the copy from the literal key lit is about to be made, after
\* the copies from the handle L, the last of them from an absolute source.
C25_Witness ==
    /\ pc = "copy"
    /\ cfg.Package = ZipMap
    /\ pkg.inc = 2
    /\ pkg.src = <<"l", "i", "t", "/", "s">>
    /\ \E i \in Idx : log[i] = Op("copy", <<pkg.key, 1, 1>>, TRUE)
    /\ \E i \in Idx : log[i] = Op("copy", <<pkg.key, 1, 3>>, TRUE)

\* C26: the archiver of a rule is selected and invoked only if the rule has
\* an output path and only after every copy operation of the rule has
\* succeeded; a failed copy or archive step is the last operation of the run
\* but for the closing of the record sink, so that no later rule is copied or
\* archived and no operation follows on what was copied.
C26_ArchiveAfterCopies ==
    /\ \A i \in Idx : log[i].op \in {"archiver", "archive"} =>
          LET k == log[i].on
          IN  /\ cfg.Package[k].Compress.Output # <<>>
              /\ \A id \in {x \in CopyOpsOf(cfg) : x[1] = k} :
                    \E j \in 1..(i - 1) : log[j] = Op("copy", id, TRUE)
    /\ \A i \in Idx : (log[i].op \in PackageOps /\ ~log[i].ok) =>
          /\ Returned
          /\ result \notin NoFault
          /\ \A j \in (i + 1)..Len(log) : log[j].op = "close"

\* C26 witness: the archive of a rule failed after its copy had succeeded,
\* and another rule is left that the run does not assemble.
C26_Witness ==
    /\ pc = "exit"
    /\ result = "ArchiveError"
    /\ todo # {}
    /\ \E i \in Idx : log[i].op = "copy" /\ log[i].ok
    /\ \E i \in Idx : log[i].op = "archive" /\ ~log[i].ok /\ i = Len(log) - 1

\* The method names of the three archivers.
ZipNames == { sZip, <<".", "z", "i", "p">> }
TarGzNames ==
    { <<"g", "z">>, <<".", "g", "z">>, <<"t", "g", "z">>, <<".", "t", "g", "z">>,
      <<"t", "a", "r", "g", "z">>, <<"t", "a", "r", ".", "g", "z">>,
      <<".", "t", "a", "r", ".", "g", "z">> }
TarBz2Names ==
    { <<"b", "z", "2">>, <<".", "b", "z", "2">>, <<"t", "b", "z">>, <<".", "t", "b", "z">>,
      <<"t", "b", "z", "2">>, <<".", "t", "b", "z", "2">>,
      <<"t", "a", "r", "b", "z", "2">>, <<"t", "a", "r", ".", "b", "z", "2">>,
      <<".", "t", "a", "r", ".", "b", "z", "2">> }

\* The method is a zip, tar+gzip or tar+bzip2 name in some casing.
Recognized(method) ==
    \E w \in ZipNames \cup TarGzNames \cup TarBz2Names : AnyCasing(method, w)

\* C27: the archiver of a rule is selected only if the rule has an output
\* path, and the selection succeeds exactly if the method is a zip, tar+gzip
\* or tar+bzip2 name in any casing; if it is not, Run returns
\* InvalidCompressMethod and no archive of that rule is made; Run returns
\* that error in no other case.
C27_UnknownMethod ==
    /\ \A i \in Idx : log[i].op = "archiver" =>
          LET k == log[i].on
              c == cfg.Package[k].Compress
          IN  /\ c.Output # <<>>
              /\ log[i].ok <=> Recognized(c.Method)
              /\ ~log[i].ok =>
                    /\ Returned /\ result = "InvalidCompressMethod"
                    /\ \A j \in Idx : ~(log[j].op = "archive" /\ log[j].on = k)
    /\ \A i \in Idx : log[i].op = "archive" =>
          Recognized(cfg.Package[log[i].on].Compress.Method)
    /\ result = "InvalidCompressMethod" =>
          \E i \in Idx : log[i].op = "archiver" /\ ~log[i].ok

\* C27 witness: Run has returned InvalidCompressMethod for a rule of method
\* rar.
C27_Witness ==
    /\ pc = "return"
    /\ result = "InvalidCompressMethod"
    /\ log[Len(log)].op = "archiver" /\ ~log[Len(log)].ok
    /\ cfg.Package[log[Len(log)].on].Compress = CompressConfig(<<"o">>, sRar)

\* Before a fetch, every export entry of the configuration has had its
\* handle constructed and its reachability checked, both with success; a run
\* in which a construction or a check failed has no fetch.
C30_AllCheckedBeforeFetch ==
    /\ \A i \in Idx : log[i].op \in FetchOps =>
          \A e \in DOMAIN cfg.Export :
             \E j, k \in 1..(i - 1) :
                /\ j < k
                /\ log[j] = Op("new", e, TRUE)
                /\ log[k] = Op("ping", e, TRUE)
    /\ (\E i \in Idx : log[i].op \in {"new", "ping"} /\ ~log[i].ok) => ~HasOp(FetchOps)

\* No working copy changes in a step taken before the connect phase is over
\* or after Run has returned the error of a construction or of a check.
C30_NoCopyTouched ==
    (\/ pc \in {"run", "connect", "ping"}
     \/ result \in {"InvalidRepositoryError", "ConnectionFailedError"})
    => wc' = wc

\* C30: Run is two-phase over the export entries: no fetch is attempted
\* until handle construction and reachability check have succeeded for every
\* export entry of the configuration, and if an entry is malformed or
\* unreachable no working copy is touched in that run.
C30_TwoPhase == [](C30_AllCheckedBeforeFetch) /\ [][C30_NoCopyTouched]_allVars

\* C30 witness: in a later run, the first entry was constructed and found
\* reachable, the second was not reachable, and Run has returned with the
\* working copy of the first entry as the run before left it.
C30_Witness ==
    /\ run > 1
    /\ pc = "exit"
    /\ result = "ConnectionFailedError"
    /\ \E i \in Idx : log[i].op = "ping" /\ log[i].ok /\ wc[log[i].on] # NoWC
                         /\ wc[log[i].on] # remote[log[i].on]

\* The configurations a and b have the same package rules and the same
\* export entries, alike in everything but the last revision.
SameButLast(a, b) ==
    /\ a.Package = b.Package
    /\ DOMAIN a.Export = DOMAIN b.Export
    /\ \A e \in DOMAIN a.Export :
          [a.Export[e] EXCEPT !.Last = <<>>] = [b.Export[e] EXCEPT !.Last = <<>>]

\* C31: the configuration a step writes to the file differs from the one
\* that was there, which is the one this run loaded, in nothing but the last
\* revisions of export entries: names, locators, paths and package rules are
\* written back as loaded, tokens included.
C31_OnlyLastWritten == [][SameButLast(disk, disk')]_allVars

\* C31 witness: with A=x the configuration was written with a new last
\* revision for L and with the ignore pattern $A, which the copy operation
\* has replaced by x in Run's own configuration.
C31_Witness ==
    /\ pc = "copy"
    /\ tA \in DOMAIN Variable
    /\ \E i \in Idx : log[i] = Op("write", <<>>, TRUE)
    /\ nL \in DOMAIN disk.Export
    /\ disk.Export[nL].Last = RevStr(2)
    /\ disk.Package[pkg.key].Include[pkg.inc].list[pkg.opi].Ignore = <<tA>>
    /\ cfg.Package[pkg.key].Include[pkg.inc].list[pkg.opi].Ignore = <<nX>>

\* The copy operation (rule, include entry, operation) id of the configuration.
CopyOp(id) == cfg.Package[id[1]].Include[id[2]].list[id[3]]

\* The operation the loop over the include entry's list is at has no source
\* or no destination.
AtEmptyOp ==
    /\ pc = "op"
    /\ pkg.opi <= Len(cfg.Package[pkg.key].Include[pkg.inc].list)
    /\ \/ CopyOp(<<pkg.key, pkg.inc, pkg.opi>>).Repo = <<>>
       \/ CopyOp(<<pkg.key, pkg.inc, pkg.opi>>).Package = <<>>

\* No pattern is compiled and no copy made for an operation without source
\* or without destination.
C32_NeverCompiledOrCopied ==
    \A i \in Idx : log[i].op \in {"compile", "copy"} =>
        /\ CopyOp(log[i].on).Repo # <<>>
        /\ CopyOp(log[i].on).Package # <<>>

\* The step at such an operation narrates nothing, raises no error and goes
\* to the next operation of the list.
C32_PassedOver ==
    AtEmptyOp =>
        /\ log' = log
        /\ result' = result
        /\ pc' = "op"
        /\ pkg' = [pkg EXCEPT !.opi = @ + 1]

\* C32: a copy operation whose source or destination is empty is skipped:
\* its ignore patterns are not compiled, the copier is not called, no error
\* is raised and the run goes on with the next operation.
C32_EmptyOpSkipped == [](C32_NeverCompiledOrCopied) /\ [][C32_PassedOver]_allVars

\* C32 witness: the second operation of the rule of LitMap is about to be
\* copied, the first one, without source and with a pattern that does not
\* compile, having been passed over.
C32_Witness ==
    /\ pc = "copy"
    /\ cfg.Package = LitMap
    /\ pkg.opi = 2
    /\ result = "running"
    /\ ~HasOp({"copy"})
    /\ log[Len(log)] = Op("compile", <<pkg.key, 1, 2>>, TRUE)

\* The configuration was parsed and has no export entry.
NoExportEntries ==
    /\ \E i \in Idx : log[i] = Op("parse", <<>>, TRUE)
    /\ DOMAIN cfg.Export = {}

\* C33: with update set and a configuration without export entries,
\* didUpdate stays false, nothing is written or assembled, and Run, once the
\* record is committed, returns the up-to-date condition; with update not
\* set Run never returns the up-to-date condition.
C33_UpToDateWithoutEntries ==
    /\ (update /\ NoExportEntries) =>
          /\ ~didUpdate
          /\ ~HasOp({"write"} \cup PackageOps)
          /\ (Returned /\ Op("commit", <<>>, FALSE) \notin Range(log))
                => result = "WorkingCopiesUpToDate"
    /\ ~update => result # "WorkingCopiesUpToDate"

\* C33 witness: a run with update set on the configuration of LitMap, which
\* has a package rule and no export entry, has returned the up-to-date
\* condition.
C33_Witness ==
    /\ pc = "return"
    /\ update
    /\ cfg.Package = LitMap
    /\ NoExportEntries
    /\ result = "WorkingCopiesUpToDate"
    /\ log = << Op("parse", <<>>, TRUE), Op("commit", <<>>, TRUE) >>

\* The places of the operations named op in the log.
Places(ops) == {i \in Idx : log[i].op \in ops}

\* A write to the sink of the record: the commit of the record, and a write
\* to os.Stderr that fails because the record's Close has closed it.
SinkWrites == Places({"commit"}) \cup {i \in Places({"stderr"}) : ~log[i].ok}

\* C34 (as claimed): on every termination path of Run the Close of the
\* record sink is called exactly once, after the commit of that run if there
\* was one, and no write to the sink follows the Close.
C34_ClosedOnceAtTheEnd ==
    /\ pc \notin {"exit", "exited"} => Places({"close"}) = {}
    /\ pc \in {"exit", "exited"} =>
          /\ Cardinality(Places({"close"})) = 1
          /\ \A i \in Places({"close"}) : \A j \in SinkWrites : j < i

(***************************************************************************)
(* Claims about copyOptions (under SpecOpt)                                *)
(***************************************************************************)
\* C15: the conflict string resolves to merge, replace or untouchable (for
\* skip, ignore, untouchable) in any casing and to merge for every other
\* string, the empty one included; the symlinks string resolves to deep,
\* shallow or skip in any casing and to skip for every other string.
C15_PolicyResolution ==
    pc = "options" =>
        LET a == pkg.cp.Conflict
            y == pkg.cp.Symlinks
        IN  /\ pkg.opt.OnDirExists =
                  (IF AnyCasing(a, wMerge) THEN "Merge"
                   ELSE IF AnyCasing(a, wReplace) THEN "Replace"
                   ELSE IF \E w \in {wSkip, wIgnore, wUntouchable} : AnyCasing(a, w)
                        THEN "Untouchable"
                   ELSE "Merge")
            /\ pkg.opt.OnSymlink =
                  (IF AnyCasing(y, wDeep) THEN "Deep"
                   ELSE IF AnyCasing(y, wShallow) THEN "Shallow"
                   ELSE "Skip")

\* C15 witness: the conflict string Ignore resolved to untouchable and the
\* empty symlinks string to skip.
C15_Witness ==
    /\ pc = "options"
    /\ pkg.cp.Conflict = <<"I", "g", "n", "o", "r", "e">>
    /\ pkg.cp.Symlinks = <<>>
    /\ pkg.opt.OnDirExists = "Untouchable"
    /\ pkg.opt.OnSymlink = "Skip"

(***************************************************************************)
(* Claims about the shell environment record (under SpecEnv)               *)
(***************************************************************************)
\* The calls of Append on the section sect whose key sanitizes to K.
CallsOf(sect, K) ==
    {i \in 1..Len(calls) : calls[i].section = sect /\ SanitizeKey(calls[i].key) = K}

SetMin(S) == CHOOSE i \in S : \A j \in S : i <= j
SetMax(S) == CHOOSE i \in S : \A j \in S : j <= i

\* C11: after any sequence of Append calls every section holds one pair per
\* sanitized key appended to it and no other pair, the pair's value is that
\* of the last Append of the key, and the pairs stand in the order of their
\* keys' first Appends; Append("s","k","1") then Append("s","k","2") leaves
\* the one pair K="2".
C11_OverwriteInPlace ==
    /\ \A n \in 1..Len(section) :
          LET sect == section[n].name
              env == section[n].env
              P == 1..Len(env.key)
          IN  /\ Len(env.val) = Len(env.key) /\ SectionLen(env) = Len(env.key)
              /\ \A p, q \in P : p # q => env.key[p] # env.key[q]
              /\ \A p \in P :
                    /\ CallsOf(sect, env.key[p]) # {}
                    /\ env.val[p] = calls[SetMax(CallsOf(sect, env.key[p]))].val
              /\ \A p, q \in P : p < q =>
                    SetMin(CallsOf(sect, env.key[p])) < SetMin(CallsOf(sect, env.key[q]))
    /\ \A i \in 1..Len(calls) :
          \E n \in 1..Len(section) :
             /\ section[n].name = calls[i].section
             /\ \E p \in 1..Len(section[n].env.key) :
                   section[n].env.key[p] = SanitizeKey(calls[i].key)
    /\ (/\ Len(calls) = 2
        /\ \A i \in 1..2 : calls[i].section = <<"s">> /\ calls[i].key = <<"k">>)
       => section = << [name |-> <<"s">>,
                        env |-> [count |-> 1, key |-> << <<"K">> >>, val |-> << <<"2">> >>]] >>

\* C11 witness: in one section a key was appended, then another key, then the
\* first key again in another spelling: two pairs, the first with the last value.
C11_Witness ==
    /\ Len(calls) = 3
    /\ \A i \in 1..3 : calls[i].section = <<"s">>
    /\ calls[1].key = <<"k">> /\ calls[2].key = <<"j">> /\ calls[3].key = <<" ", "k">>
    /\ Len(section) = 1
    /\ section[1].env.key = << <<"K">>, <<"J">> >>
    /\ section[1].env.val = << <<"3">>, <<"2">> >>

\* The distinct sanitized keys appended to the section named sect.
KeysAppended(sect) ==
    {SanitizeKey(calls[i].key) : i \in {j \in 1..Len(calls) : calls[j].section = sect}}

\* C35: after any sequence of Append calls every section has count, the
\* length of key, the length of val and Len() all equal to the number of
\* distinct sanitized keys appended to it, and no two sections share a name.
C35_SectionCounts ==
    /\ \A n \in 1..Len(section) :
          LET env == section[n].env
              d == Cardinality(KeysAppended(section[n].name))
          IN  /\ env.count = d
              /\ Len(env.key) = d
              /\ Len(env.val) = d
              /\ SectionLen(env) = d
    /\ \A m, n \in 1..Len(section) : m # n => section[m].name # section[n].name

\* C35 witness: k and then " k" were appended to the section s and k to the
\* section t: two sections of one pair each.
C35_Witness ==
    /\ calls = << Call(<<"s">>, <<"k">>, RevStr(1)),
                  Call(<<"t">>, <<"k">>, RevStr(2)),
                  Call(<<"s">>, <<" ", "k">>, RevStr(3)) >>
    /\ section = << [name |-> <<"s">>,
                     env |-> [count |-> 1, key |-> << <<"K">> >>, val |-> << RevStr(3) >>]],
                    [name |-> <<"t">>,
                     env |-> [count |-> 1, key |-> << <<"K">> >>, val |-> << RevStr(2) >>]] >>

\* The keys stored in the section named by the i-th call.
StoredKeys(i) ==
    UNION { Range(section[n].env.key) :
               n \in {m \in 1..Len(section) : section[m].name = calls[i].section} }

\* C12 (as claimed): sanitization is idempotent, also for keys that begin
\* with digits: sanitizing a stored key again gives the stored key.
C12_SanitizeIdempotent ==
    \A i \in 1..Len(calls) :
        LET K == SanitizeKey(calls[i].key)
        IN  K \in StoredKeys(i) /\ SanitizeKey(K) = K

\* C13 (as claimed): every key is stored as a string over [A-Z0-9_] without
\* leading or trailing underscore, and the stored key is empty only if the
\* upper-cased input has no character of [A-Z0-9]; a key of digits is not
\* stored as the empty string.
C13_SanitizeTotal ==
    \A i \in 1..Len(calls) :
        LET K == SanitizeKey(calls[i].key)
        IN  /\ K \in StoredKeys(i)
            /\ Range(K) \subseteq IdentChar
            /\ K # <<>> => (K[1] # "_" /\ K[Len(K)] # "_")
            /\ K = <<>> =>
                  Range(ToUpper(calls[i].key)) \cap (Range(UpperCase) \cup DigitChars) = {}

\* The elements of s in the order of their first occurrences.
RECURSIVE FirstOccurrences(_)
FirstOccurrences(s) ==
    IF s = <<>> THEN <<>>
    ELSE LET r == FirstOccurrences(SubSeq(s, 1, Len(s) - 1))
         IN  IF s[Len(s)] \in Range(r) THEN r ELSE Append(r, s[Len(s)])

\* The lines of a text: the pieces between its line ends; what follows the
\* last line end, if anything, is the last piece.
RECURSIVE Lines(_)
Lines(t) ==
    IF t = <<>> THEN <<>>
    ELSE LET k == IndexRune(t, "\n")
         IN  IF k = 0 THEN <<t>>
             ELSE <<SubSeq(t, 1, k - 1)>> \o Lines(SubSeq(t, k + 1, Len(t)))

\* The flattening of a sequence of sequences.
RECURSIVE Flatten(_)
Flatten(ss) == IF ss = <<>> THEN <<>> ELSE Head(ss) \o Flatten(Tail(ss))

\* The lines claimed for the calls made: for each section name, in the order
\* of the names' first Appends, an empty line (not before the first), the
\* three header lines, and one line per sanitized key in the order of the
\* keys' first Appends, carrying the value of the key's last Append.
ClaimedLines ==
    LET names == FirstOccurrences([i \in 1..Len(calls) |-> calls[i].section])
        block(n) ==
            LET cs == SelectSeq(calls, LAMBDA c : c.section = names[n])
                Ks == [i \in 1..Len(cs) |-> SanitizeKey(cs[i].key)]
                keys == FirstOccurrences(Ks)
                last(K) == CHOOSE i \in 1..Len(cs) :
                              Ks[i] = K /\ \A j \in (i + 1)..Len(cs) : Ks[j] # K
            IN  (IF n > 1 THEN << <<>> >> ELSE <<>>)
                   \o << <<"#", " ">>, <<"#", " ">> \o names[n], <<"#", " ">> >>
                   \o [p \in 1..Len(keys) |->
                         keys[p] \o <<"=", "\"">> \o cs[last(keys[p])].val \o <<"\"">>]
    IN  Flatten([n \in 1..Len(names) |-> block(n)])

\* C28: the text Commit writes is the claimed lines, each ended by a line
\* end: sections in the order of their first Appends, each with its three
\* header lines and its KEY="VALUE" lines in the order of the keys' first
\* Appends, one empty line between two sections, none before the first and
\* none after the last.
C28_Rendering ==
    pc = "committed" =>
        LET text == log[Len(log)].on
        IN  /\ Lines(text) = ClaimedLines
            /\ text # <<>> => text[Len(text)] = "\n"

\* C28 witness: k was appended to s, k to t and j to s, and the text written
\* is the section s with K="1" and J="3", an empty line, the section t with
\* K="2".
C28_Witness ==
    /\ pc = "committed"
    /\ Len(calls) = 3
    /\ log[Len(log)].on =
          <<"#", " ", "\n", "#", " ", "s", "\n", "#", " ", "\n", "K", "=",
          "\"", "1", "\"", "\n", "J", "=", "\"", "3", "\"", "\n", "\n", "#",
          " ", "\n", "#", " ", "t", "\n", "#", " ", "\n", "K", "=", "\"",
          "2", "\"", "\n">>

kAdashB == <<"a", "-", "b">>
kAB == <<"a", "b">>

\* The text s without its characters outside [A-Z0-9_].
Stripped(s) == SelectSeq(s, LAMBDA c : c \in IdentChar)

\* C29 (as claimed): the characters outside [A-Z0-9_] are removed after
\* upper-casing, so that two keys appended to one section that differ only
\* in such characters, as a-b and ab, are one key of the section.
C29_StrippedKeysCollide ==
    \A i, j \in 1..Len(calls) :
        (/\ calls[i].section = calls[j].section
         /\ Stripped(ToUpper(calls[i].key)) = Stripped(ToUpper(calls[j].key)))
        => SanitizeKey(calls[i].key) = SanitizeKey(calls[j].key)

\* C29 (amended): the characters outside [A-Z0-9_] are replaced, not
\* removed: no such character is left in a stored key, a-b is stored as A_B
\* and ab as AB, and the two are different pairs of a section, each with the
\* value of its own last Append.
C29_ReplacedByUnderscore ==
    /\ \A n \in 1..Len(section) : \A p \in 1..Len(section[n].env.key) :
          Range(section[n].env.key[p]) \subseteq IdentChar
    /\ \A i \in 1..Len(calls) :
          /\ calls[i].key = kAdashB => <<"A", "_", "B">> \in StoredKeys(i)
          /\ calls[i].key = kAB => <<"A", "B">> \in StoredKeys(i)
    /\ \A i, j \in 1..Len(calls) :
          (/\ calls[i].section = calls[j].section
           /\ calls[i].key = kAdashB
           /\ calls[j].key = kAB)
          => LET env == section[SectionIndex(section, calls[i].section)].env
                 p == KeyIndex(env, <<"A", "_", "B">>)
                 q == KeyIndex(env, <<"A", "B">>)
                 last(k) == SetMax({x \in 1..Len(calls) :
                                      /\ calls[x].section = calls[i].section
                                      /\ calls[x].key = k})
             IN  /\ p > 0 /\ q > 0 /\ p # q
                 /\ env.val[p] = calls[last(kAdashB)].val
                 /\ env.val[q] = calls[last(kAB)].val

\* C29 witness: a-b and then ab were appended to the section s, which holds
\* the pairs A_B="1" and AB="2".
C29_Witness ==
    /\ Len(calls) = 2
    /\ calls[1] = Call(<<"s">>, kAdashB, <<"1">>)
    /\ calls[2] = Call(<<"s">>, kAB, <<"2">>)
    /\ section = << [name |-> <<"s">>,
                     env |-> [count |-> 2,
                              key |-> << <<"A", "_", "B">>, <<"A", "B">> >>,
                              val |-> << <<"1">>, <<"2">> >>]] >>

(***************************************************************************)
(* Claims about the Variable table and substitution (under SpecVar)        *)
(***************************************************************************)
\* The text s with every literal occurrence of every token of the table
\* replaced by the token's value in one left-to-right scan of s (the longest
\* token where several start at one place); inserted text is not scanned.
RECURSIVE EveryOccurrenceReplaced(_, _)
EveryOccurrenceReplaced(s, table) ==
    IF s = <<>> THEN <<>>
    ELSE LET M == {t \in DOMAIN table : HasPrefix(s, t)}
         IN  IF M = {}
             THEN <<Head(s)>> \o EveryOccurrenceReplaced(Tail(s), table)
             ELSE LET t == CHOOSE t \in M : \A u \in M : Len(u) <= Len(t)
                  IN  table[t] \o
                      EveryOccurrenceReplaced(SubSeq(s, Len(t) + 1, Len(s)), table)

\* C8 (as claimed): for every table, also one where a token is a substring
\* of another, the substituted field is the original field with every
\* literal occurrence of each bound token replaced by the token's value.
C8_EveryOccurrenceReplaced ==
    pc = "substituted" => subst.out = EveryOccurrenceReplaced(field, Variable)

\* C9 (as claimed): with $A="$B" and $B="x", substituting the field "$A"
\* yields "$B", never "x", in whatever order the table is iterated.
C9_NoRescan ==
    ( /\ pc = "substituted"
      /\ field = tA
      /\ {tA, tB} \subseteq DOMAIN Variable
      /\ Variable[tA] = tB
      /\ Variable[tB] = <<"x">> )
    => subst.out = tB

\* The first '=' of the argument a is at index k.
FirstEquals(a, k) == a[k] = "=" /\ \A j \in 1..(k - 1) : a[j] # "="

\* The argument av[i] is the last one of av that defines its variable.
LastDefinition(av, i) ==
    \A j \in (i + 1)..Len(av) :
        ~\E k \in 1..Len(av[i]), h \in 1..Len(av[j]) :
            /\ FirstEquals(av[i], k)
            /\ FirstEquals(av[j], h)
            /\ SubSeq(av[j], 1, h - 1) = SubSeq(av[i], 1, k - 1)

C10_Bound ==
    /\ pc # "main" =>
          \A i \in 1..Len(argv) : \A k \in 1..Len(argv[i]) :
             (FirstEquals(argv[i], k) /\ LastDefinition(argv, i))
             => LET ident == <<"$">> \o SubSeq(argv[i], 1, k - 1)
                IN  /\ ident \in DOMAIN vars
                    /\ vars[ident] = SubSeq(argv[i], k + 1, Len(argv[i]))
    /\ (pc \notin {"main"} /\ todo = {}) =>
          /\ \A ident \in DOMAIN vars :
                ident \in DOMAIN Variable /\ Variable[ident] = vars[ident]
          /\ \A ident \in DOMAIN VariableInit \ DOMAIN vars :
                ident \in DOMAIN Variable /\ Variable[ident] = VariableInit[ident]
    /\ (pc = "substituted" /\ DOMAIN vars = {tDATETIME} /\ field = <<"p">> \o tDATETIME) =>
          subst.out = <<"p">> \o vars[tDATETIME]

C10_NeverDeleted == DOMAIN Variable \subseteq DOMAIN Variable'

\* C10: an argument VAR=VAL binds $VAR to VAL, split at the first '='; a user
\* binding of the builtin $DATETIME replaces the builtin value, which the
\* substitution then uses; no step removes a key from the table.
C10_UserBindings == [](C10_Bound) /\ [][C10_NeverDeleted]_allVars

\* C10 witness: the user has overridden $DATETIME and a field naming it was
\* substituted with the user's value, the argument being split at its first '='.
C10_Witness ==
    /\ pc = "substituted"
    /\ \E i \in 1..Len(argv) : argv[i] = <<"A", "=", "x", "=", "y">>
    /\ tDATETIME \in DOMAIN vars
    /\ Variable[tDATETIME] = <<"u">>
    /\ tA \in DOMAIN Variable /\ Variable[tA] = <<"x", "=", "y">>
    /\ field = <<"p">> \o tDATETIME
    /\ subst.out = <<"p", "u">>

============================================================================
